---- MODULE Spec2Model ----
(***************************************************************************)
(* Model of the backtest execution engine of trading-bot-crypto:           *)
(*   - SimulatedBybitClient (services/bybit_client.py): the simulated      *)
(*     account, one balance and one position, and execute_order;           *)
(*   - run_backtest (backtester.py): load, the bar-by-bar loop, terminal   *)
(*     liquidation;                                                        *)
(*   - log_trade (services/trade_logger.py): the session CSV file.         *)
(*                                                                         *)
(* Numbers.  Python floats are modelled by exact integers:                 *)
(*   quantities and position sizes in quantity units, prices in whole      *)
(*   currency units, pnl and balances in pnl units (price * quantity).     *)
(*   The threshold 1e-9 of execute_order is Epsilon quantity units, so a   *)
(*   quantity can lie below it, on it and above it; the quantity 1.0 is    *)
(*   One quantity units; 0.01 currency units, the resolution of the ".2f"  *)
(*   columns of the log file, is Cent pnl units, so a pnl can fall         *)
(*   between two hundredths.  The order of these magnitudes is the         *)
(*   program's, their ratios are compressed (One / Epsilon stands for      *)
(*   1e9): the code only compares sizes with the threshold, multiplies     *)
(*   and adds.  Floating-point round-off is outside the model.             *)
(***************************************************************************)
EXTENDS Integers, Sequences, FiniteSets, TLC

VARIABLES
    pc,                   \* position of run_backtest: "load", "replay", "done", "exit" (sys.exit), "crashed" (uncaught exception);
                          \* "client" / "logger" when the client / the logger is driven directly
    exit_status,          \* exit status of the process, -1 while it runs
    csv_state,            \* config.HISTORICAL_DATA_FILE: "missing", "unreadable" or "ok"
    csv_columns,          \* the columns of the file, among Timestamp, Close, close
    csv_file,             \* rows of config.HISTORICAL_DATA_FILE, in file order
    TRADE_QUANTITY,       \* config.TRADE_QUANTITY, in quantity units
    initial_capital,      \* config.BACKTEST_INITIAL_CAPITAL, in pnl units
    df_historical,        \* the loaded series (sorted by Timestamp)
    i,                    \* loop cursor of run_backtest: number of bars already processed
    strategy,             \* the strategy plugged in: "any" (any signals, argument left alone),
                          \* "mutating" (any signals, any change to its argument),
                          \* "rsi" (strategies/rsi_strategy.py, the one backtester.py imports)
    strategy_calls,       \* history: every generate_signal call (bar index, slice passed, signal returned)
    current_balance,      \* SimulatedBybitClient.current_balance
    current_position,     \* SimulatedBybitClient.current_position
    uuid_count,           \* number of uuid4() order ids drawn so far
    last_order,           \* the most recent execute_order call: arguments, state before, result
    orders,               \* history: every execute_order call made by run_backtest
    session_log_filename, \* trade_logger.session_log_filename (module global)
    log_file,             \* content of the session log file, row by row
    log_calls,            \* history: the arguments of every log_trade call
    commission_rate,      \* SimulatedBybitClient.commission_rate, in units of 1e-5
    twin,                 \* a second run on the same inputs with another commission rate
                          \* (its World), NoTwin when the run is followed alone
    live,                 \* main_bot_loop: iteration count and the locals of the iteration
    exchange,             \* the exchange account behind BybitClient: position, orders received
    download              \* download_historical_klines: its arguments, the klines the exchange
                          \* has, the cursor and the klines collected, the file written

vars == << pc, exit_status, csv_state, csv_columns, csv_file, TRADE_QUANTITY,
           initial_capital, df_historical, i, strategy, strategy_calls,
           current_balance, current_position, uuid_count, last_order, orders,
           session_log_filename, log_file, log_calls, commission_rate, twin,
           live, exchange, download >>

-----------------------------------------------------------------------------
(* Scales and bounds *)

\* 1e-9, the size threshold of execute_order, in quantity units.
Epsilon == 2

\* 0.01 currency units (the ".2f" of log_trade) in pnl units.  Odd, so that
\* no value lies exactly half-way between two representable amounts.
Cent == 7

\* 1e-8 (the ".8f" of log_trade) in quantity units: above Epsilon, and One
\* is a multiple of it.
QuantityStep == 20

\* The quantity 1.0 in quantity units (price unit = 100 * 0.01 currency units).
One == 100 * Cent

\* Longest historical series replayed.
MaxBars == 3

\* Number of execute_order calls when the client is driven directly.
MaxCalls == 3

\* Closing prices of the candles, in price units.
Prices == {95, 100, 120}

\* Configured trade quantities: below, at and above Epsilon, and 1.0.
TradeQuantities == {1, Epsilon, 3, One}

\* Configured initial capital, in currency units.
InitialCapitals == {1000, 10000}

\* current_backtest_symbol, extracted from the data file name.
SYMBOL == "ETHUSDT"

Signals == {"BUY", "SELL", "HOLD", "WAIT"}

NoOrder == [bar |-> -1]

NoFile == << >>

\* config.BACKTEST_COMMISSION_RATE, 0.00075, in units of 1e-5.
BACKTEST_COMMISSION_RATE == 75

\* No second run is followed.
NoTwin == [commission_rate |-> -1]

\* main_bot_loop is not running.
NoLive == [iteration |-> -1]

\* No exchange account is reached.
NoExchange == [size |-> -1]

\* download_historical_klines is not running.
NoDownload == [pc |-> "none"]

Min(a, b) == IF a <= b THEN a ELSE b

RECURSIVE Sum(_)
\* Sum of a sequence of integers.
Sum(s) == IF s = << >> THEN 0 ELSE Head(s) + Sum(Tail(s))

-----------------------------------------------------------------------------
(* services/trade_logger.py *)

\* f"{x:.2f}": x rounded to the nearest multiple of 0.01.
Fmt2(x) ==
    LET q == x \div Cent
        r == x % Cent
    IN  IF 2 * r < Cent THEN q * Cent ELSE (q + 1) * Cent

\* f"{quantity:.8f}": quantity rounded to the nearest multiple of 1e-8.
Fmt8(quantity) ==
    LET q == quantity \div QuantityStep
        r == quantity % QuantityStep
    IN  IF 2 * r < QuantityStep THEN q * QuantityStep ELSE (q + 1) * QuantityStep

Header ==
    [row |-> "header",
     columns |-> << "Timestamp", "Symbol", "Action", "Side", "Quantity", "Price",
                    "PNL", "BalanceAfterTrade", "OrderID", "Status" >>]

\* The world threaded through one handler: the client, the id source, the
\* logger's global and the log file.
World ==
    [position |-> current_position,
     balance |-> current_balance,
     uuid_count |-> uuid_count,
     last_order |-> last_order,
     orders |-> orders,
     session_log_filename |-> session_log_filename,
     log_file |-> log_file,
     log_calls |-> log_calls,
     commission_rate |-> commission_rate]

\* Variant of log_trade that names the file after every call's symbol and
\* is_backtest: a call for another symbol or mode starts another file.
log_trade_file_per_symbol(w, symbol, action, side, quantity, price, pnl, balance_after_trade, order_id, status, is_backtest) ==
    LET name  == << IF is_backtest THEN "backtest_log" ELSE "live_trade_log", symbol >>
        first == w.session_log_filename # name
        file  == IF first THEN << Header >> ELSE w.log_file
        data  == [row |-> "data", Symbol |-> symbol, Action |-> action, Side |-> side,
                  Quantity |-> Fmt8(quantity), Price |-> price,
                  pnl |-> pnl, balance_after_trade |-> balance_after_trade,
                  PNL |-> Fmt2(pnl), BalanceAfterTrade |-> Fmt2(balance_after_trade),
                  OrderID |-> order_id, Status |-> status]
        call  == [symbol |-> symbol, action |-> action, side |-> side,
                  quantity |-> quantity, price |-> price, pnl |-> pnl,
                  balance_after_trade |-> balance_after_trade, order_id |-> order_id,
                  status |-> status, is_backtest |-> is_backtest]
    IN  [w EXCEPT !.session_log_filename = name, !.log_file = Append(file, data),
                  !.log_calls = Append(@, call)]

\* Variant of log_trade that writes the header before every data row.
log_trade_header_each_call(w, symbol, action, side, quantity, price, pnl, balance_after_trade, order_id, status, is_backtest) ==
    LET first == w.session_log_filename = NoFile
        name  == IF first
                 THEN << IF is_backtest THEN "backtest_log" ELSE "live_trade_log", symbol >>
                 ELSE w.session_log_filename
        data  == [row |-> "data", Symbol |-> symbol, Action |-> action, Side |-> side,
                  Quantity |-> Fmt8(quantity), Price |-> price,
                  pnl |-> pnl, balance_after_trade |-> balance_after_trade,
                  PNL |-> Fmt2(pnl), BalanceAfterTrade |-> Fmt2(balance_after_trade),
                  OrderID |-> order_id, Status |-> status]
        call  == [symbol |-> symbol, action |-> action, side |-> side,
                  quantity |-> quantity, price |-> price, pnl |-> pnl,
                  balance_after_trade |-> balance_after_trade, order_id |-> order_id,
                  status |-> status, is_backtest |-> is_backtest]
    IN  [w EXCEPT !.session_log_filename = name,
                  !.log_file = Append(Append(@, Header), data),
                  !.log_calls = Append(@, call)]

\* Variant of log_trade that opens the file in mode 'w' for the data row
\* too: each call leaves the header and its own row.
log_trade_truncating(w, symbol, action, side, quantity, price, pnl, balance_after_trade, order_id, status, is_backtest) ==
    LET first == w.session_log_filename = NoFile
        name  == IF first
                 THEN << IF is_backtest THEN "backtest_log" ELSE "live_trade_log", symbol >>
                 ELSE w.session_log_filename
        data  == [row |-> "data", Symbol |-> symbol, Action |-> action, Side |-> side,
                  Quantity |-> Fmt8(quantity), Price |-> price,
                  pnl |-> pnl, balance_after_trade |-> balance_after_trade,
                  PNL |-> Fmt2(pnl), BalanceAfterTrade |-> Fmt2(balance_after_trade),
                  OrderID |-> order_id, Status |-> status]
        call  == [symbol |-> symbol, action |-> action, side |-> side,
                  quantity |-> quantity, price |-> price, pnl |-> pnl,
                  balance_after_trade |-> balance_after_trade, order_id |-> order_id,
                  status |-> status, is_backtest |-> is_backtest]
    IN  [w EXCEPT !.session_log_filename = name, !.log_file = << Header, data >>,
                  !.log_calls = Append(@, call)]

\* log_trade(symbol, action, side, quantity, price, pnl, balance_after_trade,
\*           order_id, status, is_backtest): on the first call of the process
\* the file is created with the header; every call appends one row.  The
\* row keeps the arguments pnl and balance_after_trade beside the columns
\* PNL and BalanceAfterTrade actually written (formatted with ".2f");
\* Quantity is written with ".8f", Price (whole currency units) as it is.
log_trade(w, symbol, action, side, quantity, price, pnl, balance_after_trade, order_id, status, is_backtest) ==
    LET first == w.session_log_filename = NoFile
        name  == IF first
                 THEN << IF is_backtest THEN "backtest_log" ELSE "live_trade_log", symbol >>
                 ELSE w.session_log_filename
        file  == IF first THEN << Header >> ELSE w.log_file
        data  == [row |-> "data", Symbol |-> symbol, Action |-> action, Side |-> side,
                  Quantity |-> Fmt8(quantity), Price |-> price,
                  pnl |-> pnl, balance_after_trade |-> balance_after_trade,
                  PNL |-> Fmt2(pnl), BalanceAfterTrade |-> Fmt2(balance_after_trade),
                  OrderID |-> order_id, Status |-> status]
        call  == [symbol |-> symbol, action |-> action, side |-> side,
                  quantity |-> quantity, price |-> price, pnl |-> pnl,
                  balance_after_trade |-> balance_after_trade, order_id |-> order_id,
                  status |-> status, is_backtest |-> is_backtest]
    IN  [w EXCEPT !.session_log_filename = name, !.log_file = Append(file, data),
                  !.log_calls = Append(@, call)]

-----------------------------------------------------------------------------
(* services/bybit_client.py: SimulatedBybitClient *)

\* SimulatedBybitClient.__init__: the position a new client holds.
InitPosition == [symbol |-> "None", size |-> 0, side |-> "None", entry_price |-> 0]

\* Variant of SimulatedBybitClient that takes the commission off the
\* capital it starts with.
SimulatedBybitClientNetOfCommission(w, capital, rate) ==
    [w EXCEPT !.balance = capital - rate, !.position = InitPosition,
              !.commission_rate = rate]

\* SimulatedBybitClient(historical_data_df, initial_capital, commission_rate):
\* the balance is the capital, the position is flat, the rate is kept and
\* read by nothing but the message of the constructor.
SimulatedBybitClient(w, capital, rate) ==
    [w EXCEPT !.balance = capital, !.position = InitPosition,
              !.commission_rate = rate]

\* First branch of the classification of execute_order.
IsClosing(current_size, current_side, order_side) ==
    /\ current_size > Epsilon
    /\ \/ current_side = "Long" /\ order_side = "Sell"
       \/ current_side = "Short" /\ order_side = "Buy"

\* Second branch (elif): no position.
IsOpening(current_size) == current_size < Epsilon

\* Third branch (elif): the position side is compared with the order side.
IsExtending(current_size, current_side, order_side) ==
    current_size > Epsilon /\ current_side = order_side

\* Variant of ClosePnl with the sign of a Long close taken for a Short one.
ClosePnlFlipped(current_side, current_entry_price, price, close_amount) ==
    IF current_side = "Long"
    THEN (current_entry_price - price) * close_amount
    ELSE (price - current_entry_price) * close_amount

\* Variant of ClosePnl that takes every position for a Long one.
ClosePnlOfLong(current_side, current_entry_price, price, close_amount) ==
    (price - current_entry_price) * close_amount

\* pnl realised by closing close_amount of the position at price.
ClosePnl(current_side, current_entry_price, price, close_amount) ==
    IF current_side = "Long"
    THEN (price - current_entry_price) * close_amount
    ELSE (current_entry_price - price) * close_amount

\* Variant of ClosedPosition that resets the position only when less than
\* Epsilon is left of it.
ClosedPositionBelowEpsilon(position, close_amount) ==
    LET size == position.size - close_amount
    IN  IF size < Epsilon
        THEN [position EXCEPT !.size = 0, !.side = "None", !.entry_price = 0]
        ELSE [position EXCEPT !.size = size]

\* Variant of ClosedPosition that zeroes the size of a fully closed
\* position and leaves its side.
ClosedPositionKeepSide(position, close_amount) ==
    LET size == position.size - close_amount
    IN  IF size <= Epsilon
        THEN [position EXCEPT !.size = 0]
        ELSE [position EXCEPT !.size = size]

\* The position after closing close_amount of it.
ClosedPosition(position, close_amount) ==
    LET size == position.size - close_amount
    IN  IF size <= Epsilon
        THEN [position EXCEPT !.size = 0, !.side = "None", !.entry_price = 0]
        ELSE [position EXCEPT !.size = size]

\* The position after an opening fill.
OpenedPosition(position, symbol, order_side, quantity, price) ==
    [symbol |-> symbol, size |-> quantity,
     side |-> IF order_side = "Buy" THEN "Long" ELSE "Short",
     entry_price |-> price]

\* The position after an extending fill (weighted average entry price).
ExtendedPosition(position, quantity, price) ==
    LET old_total_value == position.size * position.entry_price
        new_trade_value == quantity * price
        new_total_size  == position.size + quantity
    IN  [position EXCEPT
            !.size = new_total_size,
            !.entry_price = IF new_total_size > 0
                            THEN (old_total_value + new_trade_value) \div new_total_size
                            ELSE 0]

\* Variant of BalanceAfterClose that charges one pnl unit of commission.
BalanceAfterCloseWithFee(balance, pnl) == balance + pnl - 1

\* The balance after a closing fill that realised pnl.
BalanceAfterClose(balance, pnl) == balance + pnl

\* Variant of BalanceAfterOpen that charges one balance unit on the fill.
BalanceAfterOpenWithFee(balance, quantity, price) == balance - 1

\* Variant of BalanceAfterOpen that pays the notional of the fill.
BalanceAfterOpenPaysNotional(balance, quantity, price) == balance - quantity * price

\* The balance after an opening or an extending fill: neither branch
\* assigns self._balance.
BalanceAfterOpen(balance, quantity, price) == balance

\* Variant of PositionAfter in which the branch of the opening fill is the
\* final else: a fill that fits no kind opens a position.
PositionAfterElseOpens(kind, position, symbol, order_side, quantity, price, close_amount) ==
    CASE kind = "closing"   -> ClosedPosition(position, close_amount)
      [] kind = "extending" -> ExtendedPosition(position, quantity, price)
      [] OTHER              -> OpenedPosition(position, symbol, order_side, quantity, price)

\* The position after a fill of each kind; a rejected fill returns before
\* anything is written.
PositionAfter(kind, position, symbol, order_side, quantity, price, close_amount) ==
    CASE kind = "closing"   -> ClosedPosition(position, close_amount)
      [] kind = "opening"   -> OpenedPosition(position, symbol, order_side, quantity, price)
      [] kind = "extending" -> ExtendedPosition(position, quantity, price)
      [] kind = "rejected"  -> position

\* Variant of uuid4 that gives every call the same identifier.
uuid4_constant(drawn) == << "uuid", 1 >>

\* str(uuid.uuid4()): an identifier no earlier draw of the process gave,
\* named after the number of draws made before it (drawn).
uuid4(drawn) == << "uuid", drawn + 1 >>

\* execute_order(symbol, order_side, quantity, price, timestamp) on the
\* client held in w; bar is the candle index of the caller (-1: none).
\* The call is recorded in last_order: arguments, state before, kind, result.
execute_order(w, bar, symbol, order_side, quantity, price) ==
    LET order_id            == uuid4(w.uuid_count)
        current_size        == w.position.size
        current_side        == w.position.side
        current_entry_price == w.position.entry_price
        kind == IF IsClosing(current_size, current_side, order_side) THEN "closing"
                ELSE IF IsOpening(current_size) THEN "opening"
                ELSE IF IsExtending(current_size, current_side, order_side) THEN "extending"
                ELSE "rejected"
        close_amount == Min(quantity, current_size)
        pnl_on_this_trade ==
            IF kind = "closing"
            THEN ClosePnl(current_side, current_entry_price, price, close_amount)
            ELSE 0
        balance == CASE kind = "closing"  -> BalanceAfterClose(w.balance, pnl_on_this_trade)
                     [] kind = "rejected" -> w.balance
                     [] OTHER             -> BalanceAfterOpen(w.balance, quantity, price)
        position == PositionAfter(kind, w.position, symbol, order_side, quantity, price, close_amount)
        call == [bar |-> bar, order_side |-> order_side, quantity |-> quantity,
                 price |-> price, kind |-> kind,
                 position_before |-> w.position, balance_before |-> w.balance,
                 success |-> kind # "rejected", order_id |-> order_id,
                 pnl |-> pnl_on_this_trade, balance_after_trade |-> balance]
    IN  [w EXCEPT !.position = position, !.balance = balance,
                  !.uuid_count = @ + 1, !.last_order = call]

-----------------------------------------------------------------------------
(* backtester.py: run_backtest *)

\* generate_signal(df_klines): whatever the indicator computes, what a
\* strategy returns is one of the four signals; the engine is checked
\* against every such strategy.
generate_signal(df_klines) == Signals

\* rsi_strategy.py: the period of the indicator.
RSI_PERIOD == 14

\* Variant of rsi_generate_signal that waits for RSI_PERIOD candles only.
rsi_generate_signal_one_candle_short(df_klines) ==
    IF Len(df_klines) = 0 \/ Len(df_klines) < RSI_PERIOD
    THEN {"WAIT"}
    ELSE Signals

\* rsi_strategy.generate_signal(df_klines): WAIT, before the frame is
\* touched, when it has fewer than RSI_PERIOD + 1 rows; otherwise the
\* signal follows from the indicator, which is left open: WAIT (too few
\* rows after cleaning), BUY, SELL or HOLD.
rsi_generate_signal(df_klines) ==
    IF Len(df_klines) = 0 \/ Len(df_klines) < RSI_PERIOD + 1
    THEN {"WAIT"}
    ELSE Signals

\* The signals the strategy plugged in may return for a frame.
StrategySignals(s, df_klines) ==
    IF s = "rsi" THEN rsi_generate_signal(df_klines) ELSE generate_signal(df_klines)

\* What a strategy may do to the frame it is given: nothing, rewrite the
\* column close (rsi_strategy.py:31), drop rows (lines 32, 44), add a
\* column (line 41).
Mutations == {"none", "rewrite_close", "drop_rows", "add_column"}

\* The changes the strategy plugged in makes to its argument; those of the
\* RSI strategy are followed under "mutating", which makes any of them on
\* any call.
StrategyMutations(s) == IF s = "mutating" THEN Mutations ELSE {"none"}

\* Variant of StrategyArgument without .copy(): the slice itself, which
\* shares the values of df_historical.
StrategyArgumentView(current_data_slice) ==
    [df_klines |-> current_data_slice, shared |-> TRUE]

\* current_data_slice.copy(): a frame with the rows of the slice and values
\* of its own.
StrategyArgument(current_data_slice) ==
    [df_klines |-> current_data_slice, shared |-> FALSE]

\* df_historical after the strategy has changed its argument: values
\* written into a frame that shares them with the series show in the series;
\* rows dropped from and columns added to the argument change only the
\* argument.
AfterStrategy(df, argument, mutation) ==
    IF argument.shared /\ mutation = "rewrite_close"
    THEN [k \in 1..Len(df) |->
             IF k <= Len(argument.df_klines) THEN [df[k] EXCEPT !.close = 0] ELSE df[k]]
    ELSE df

\* Variant of DataSlice that hands over the whole series (look-ahead).
DataSliceWhole(df, bar) == df

\* df_historical.iloc[0:i+1] for the 0-based bar index bar.
DataSlice(df, bar) == SubSeq(df, 1, bar + 1)

\* df.sort_values('Timestamp').reset_index(drop=True): the rows in ascending
\* Timestamp order; rows with equal Timestamp may come out in any order.
\* Rows already in strictly ascending order stay as they are.
SortValues(rows) ==
    LET n == Len(rows)
        perms == {p \in [1..n -> 1..n] : \A a, b \in 1..n : a # b => p[a] # p[b]}
    IN  IF \A a \in 1..(n - 1) : rows[a].Timestamp < rows[a + 1].Timestamp
        THEN {rows}
        ELSE {[k \in 1..n |-> rows[p[k]]] : p \in
                {q \in perms : \A a, b \in 1..n : a < b => rows[q[a]].Timestamp <= rows[q[b]].Timestamp}}

\* The try block of run_backtest raises: the file is not found, cannot be
\* read or parsed, or df_historical['Timestamp'] is missing.  The price
\* column is not looked at there.
LoadFails(state, columns) == state # "ok" \/ "Timestamp" \notin columns

\* The columns after 'Close' has been renamed to 'close' (only when the
\* file has 'Close' and no 'close').
Renamed(columns) ==
    IF "Close" \in columns /\ "close" \notin columns
    THEN (columns \ {"Close"}) \cup {"close"}
    ELSE columns

\* simulated_bybit_client.execute_order(...) as called by run_backtest: the
\* call is added to the history of the run's fills.
Submit(w, bar, order_side, quantity, price) ==
    LET r == execute_order(w, bar, SYMBOL, order_side, quantity, price)
    IN  [r EXCEPT !.orders = Append(@, r.last_order)]

\* Variant of CloseLeg that logs the balance read before the order.
CloseLegLogsBalanceBefore(w, bar, order_side, current_position_size, current_candle_close, status) ==
    LET r == Submit(w, bar, order_side, current_position_size, current_candle_close)
        close_res == r.last_order
    IN  IF close_res.success
        THEN log_trade(r, SYMBOL, "CLOSE_POSITION", order_side, current_position_size,
                       current_candle_close, close_res.pnl, w.balance,
                       close_res.order_id, status, TRUE)
        ELSE r

\* The close leg of a reversal: close the whole current position, and log
\* CLOSE_POSITION if the order succeeded.
CloseLeg(w, bar, order_side, current_position_size, current_candle_close, status) ==
    LET r == Submit(w, bar, order_side, current_position_size, current_candle_close)
        close_res == r.last_order
    IN  IF close_res.success
        THEN log_trade(r, SYMBOL, "CLOSE_POSITION", order_side, current_position_size,
                       current_candle_close, close_res.pnl, close_res.balance_after_trade,
                       close_res.order_id, status, TRUE)
        ELSE r

\* Variant of OpenLeg that opens twice the configured quantity.
OpenLegTwice(w, bar, order_side, quantity, current_candle_close, status) ==
    LET r == Submit(w, bar, order_side, 2 * quantity, current_candle_close)
        open_res == r.last_order
    IN  IF open_res.success
        THEN log_trade(r, SYMBOL, "OPEN_POSITION", order_side, 2 * quantity,
                       current_candle_close, 0, open_res.balance_after_trade,
                       open_res.order_id, status, TRUE)
        ELSE r

\* The open leg: open with the configured quantity, and log OPEN_POSITION
\* (pnl 0.0) if the order succeeded.
OpenLeg(w, bar, order_side, quantity, current_candle_close, status) ==
    LET r == Submit(w, bar, order_side, quantity, current_candle_close)
        open_res == r.last_order
    IN  IF open_res.success
        THEN log_trade(r, SYMBOL, "OPEN_POSITION", order_side, quantity,
                       current_candle_close, 0, open_res.balance_after_trade,
                       open_res.order_id, status, TRUE)
        ELSE r

\* Variant of OnBuy without the test on the side held: a BUY while Long
\* adds to the position.
OnBuyExtends(w, bar, quantity, current_candle_close) ==
    LET current_position_size == w.position.size
        current_position_side == w.position.side
        c == IF current_position_side = "Short"
             THEN CloseLeg(w, bar, "Buy", current_position_size,
                           current_candle_close, "CLOSED_SHORT")
             ELSE w
    IN  OpenLeg(c, bar, "Buy", quantity, current_candle_close, "EXECUTED_LONG")

\* if signal == "BUY": the position read before the branch decides.
OnBuy(w, bar, quantity, current_candle_close) ==
    LET current_position_size == w.position.size
        current_position_side == w.position.side
    IN  IF current_position_side # "Long"
        THEN LET c == IF current_position_side = "Short"
                      THEN CloseLeg(w, bar, "Buy", current_position_size,
                                    current_candle_close, "CLOSED_SHORT")
                      ELSE w
             IN  OpenLeg(c, bar, "Buy", quantity, current_candle_close, "EXECUTED_LONG")
        ELSE w

\* Variant of OnSell that only closes a Long and opens on the next SELL.
OnSellClosesOnly(w, bar, quantity, current_candle_close) ==
    LET current_position_size == w.position.size
        current_position_side == w.position.side
    IN  IF current_position_side = "Long"
        THEN CloseLeg(w, bar, "Sell", current_position_size,
                      current_candle_close, "CLOSED_LONG")
        ELSE IF current_position_side = "None"
        THEN OpenLeg(w, bar, "Sell", quantity, current_candle_close, "EXECUTED_SHORT")
        ELSE w

\* elif signal == "SELL".
OnSell(w, bar, quantity, current_candle_close) ==
    LET current_position_size == w.position.size
        current_position_side == w.position.side
    IN  IF current_position_side # "Short"
        THEN LET c == IF current_position_side = "Long"
                      THEN CloseLeg(w, bar, "Sell", current_position_size,
                                    current_candle_close, "CLOSED_LONG")
                      ELSE w
             IN  OpenLeg(c, bar, "Sell", quantity, current_candle_close, "EXECUTED_SHORT")
        ELSE w

\* Variant of NoAction that takes the signal for a SELL.
NoActionSells(w, bar, quantity, current_candle_close) ==
    OnSell(w, bar, quantity, current_candle_close)

\* Variant of NoAction that records the bar on which nothing is done.
NoActionLogged(w, bar, quantity, current_candle_close) ==
    log_trade(w, SYMBOL, "HOLD", "N/A", 0, current_candle_close, 0, w.balance,
              << "N/A" >>, "NO_ACTION", TRUE)

\* elif signal == "HOLD": pass, and WAIT, which no branch matches.
NoAction(w, bar, quantity, current_candle_close) == w

\* Variant of FinalClose that leaves the last position open.
FinalCloseSkipped(w, df) == w

\* Terminal liquidation: close whatever position is left at the last close;
\* the record is written whatever execute_order returned.
FinalClose(w, df) ==
    LET final_position_size == w.position.size
        final_position_side == w.position.side
        final_candle_close  == df[Len(df)].close
    IN  IF final_position_side = "None" THEN w
        ELSE IF final_position_side = "Long"
        THEN LET r == Submit(w, Len(df), "Sell", final_position_size, final_candle_close)
                 sim_res == r.last_order
             IN  log_trade(r, SYMBOL, "CLOSE_POSITION", "Sell", final_position_size,
                           final_candle_close, sim_res.pnl, sim_res.balance_after_trade,
                           << "SIM_FINAL_CLOSE_LONG" >>, "CLOSED_AT_END", TRUE)
        ELSE IF final_position_side = "Short"
        THEN LET r == Submit(w, Len(df), "Buy", final_position_size, final_candle_close)
                 sim_res == r.last_order
             IN  log_trade(r, SYMBOL, "CLOSE_POSITION", "Buy", final_position_size,
                           final_candle_close, sim_res.pnl, sim_res.balance_after_trade,
                           << "SIM_FINAL_CLOSE_SHORT" >>, "CLOSED_AT_END", TRUE)
        ELSE w

-----------------------------------------------------------------------------
(* State machine *)

\* The variables of the world take the values of w.
Commit(w) ==
    /\ current_position' = w.position
    /\ current_balance' = w.balance
    /\ uuid_count' = w.uuid_count
    /\ last_order' = w.last_order
    /\ orders' = w.orders
    /\ session_log_filename' = w.session_log_filename
    /\ log_file' = w.log_file
    /\ log_calls' = w.log_calls

\* The historical data files: up to MaxBars rows with distinct Timestamps,
\* stored oldest first or newest first.
CsvFiles ==
    UNION {{[k \in 1..n |-> [Timestamp |-> k, close |-> f[k]]] : f \in [1..n -> Prices]}
           \cup {[k \in 1..n |-> [Timestamp |-> n + 1 - k, close |-> f[k]]] : f \in [1..n -> Prices]} :
           n \in 0..MaxBars}

\* The process before run_backtest has read anything.
Init ==
    /\ pc = "load"
    /\ exit_status = -1
    /\ csv_state = "ok"
    /\ csv_columns = {"Timestamp", "close"}
    /\ csv_file \in CsvFiles
    /\ TRADE_QUANTITY \in TradeQuantities
    /\ initial_capital \in {c * One : c \in InitialCapitals}
    /\ df_historical = << >>
    /\ i = 0
    /\ strategy = "any"
    /\ strategy_calls = << >>
    /\ current_balance = 0
    /\ current_position = InitPosition
    /\ uuid_count = 0
    /\ last_order = NoOrder
    /\ orders = << >>
    /\ session_log_filename = NoFile
    /\ log_file = << >>
    /\ log_calls = << >>
    /\ commission_rate = BACKTEST_COMMISSION_RATE
    /\ twin = NoTwin
    /\ live = NoLive
    /\ exchange = NoExchange
    /\ download = NoDownload

\* run_backtest up to the loop: read and sort the series, create the
\* simulated client, log START_BACKTEST.
Load ==
    /\ pc = "load"
    /\ ~LoadFails(csv_state, csv_columns)
    /\ df_historical' \in SortValues(csv_file)
    /\ LET handler(w) ==
               LET c == SimulatedBybitClient(w, initial_capital, w.commission_rate)
               IN  log_trade(c, SYMBOL, "START_BACKTEST", "N/A", 0, 0, 0, c.balance,
                             << "N/A" >>, "INITIALIZED", TRUE)
       IN  Commit(handler(World)) /\ twin' = (IF twin = NoTwin THEN twin ELSE handler(twin))
    /\ pc' = "replay"
    /\ i' = 0
    /\ UNCHANGED << exit_status, csv_state, strategy, commission_rate, live, exchange, download,
                    csv_columns, csv_file, TRADE_QUANTITY,
                    initial_capital, strategy_calls >>

\* One iteration of the loop, for the signal the strategy returned.
Bar(signal) ==
    /\ pc = "replay"
    /\ i < Len(df_historical)
    /\ "close" \in Renamed(csv_columns)
    /\ LET current_data_slice   == DataSlice(df_historical, i)
           current_candle_close == df_historical[i + 1].close
           argument             == StrategyArgument(current_data_slice)
       IN  /\ signal \in StrategySignals(strategy, current_data_slice)
           /\ \E mutation \in StrategyMutations(strategy) :
                 /\ strategy_calls' = Append(strategy_calls,
                        [i |-> i, df_klines |-> current_data_slice, signal |-> signal,
                         mutation |-> mutation])
                 /\ df_historical' = AfterStrategy(df_historical, argument, mutation)
           /\ LET handler(w) ==
                      CASE signal = "BUY"  -> OnBuy(w, i, TRADE_QUANTITY, current_candle_close)
                        [] signal = "SELL" -> OnSell(w, i, TRADE_QUANTITY, current_candle_close)
                        [] OTHER -> NoAction(w, i, TRADE_QUANTITY, current_candle_close)
              IN  Commit(handler(World)) /\ twin' = (IF twin = NoTwin THEN twin ELSE handler(twin))
    /\ i' = i + 1
    /\ UNCHANGED << pc, exit_status, csv_state, strategy, commission_rate, live, exchange, download,
                    csv_columns, csv_file, TRADE_QUANTITY,
                    initial_capital >>

SignalBuy == Bar("BUY")

SignalSell == Bar("SELL")

SignalHold == Bar("HOLD")

SignalWait == Bar("WAIT")

\* After the loop: terminal liquidation and the summary.
Finish ==
    /\ pc = "replay"
    /\ i = Len(df_historical)
    /\ LET handler(w) == FinalClose(w, df_historical)
       IN  Commit(handler(World)) /\ twin' = (IF twin = NoTwin THEN twin ELSE handler(twin))
    /\ pc' = "done"
    /\ exit_status' = 0
    /\ UNCHANGED << csv_state, strategy, commission_rate, live, exchange, download,
                    csv_columns, csv_file, TRADE_QUANTITY, initial_capital,
                    df_historical, i, strategy_calls >>

Next == Load \/ SignalBuy \/ SignalSell \/ SignalHold \/ SignalWait \/ Finish

Spec == Init /\ [][Next]_vars

-----------------------------------------------------------------------------
(* run_backtest on any historical data file, good or bad *)

CsvStates == {"missing", "unreadable", "ok"}

CsvColumns == {"Timestamp", "Close", "close"}

\* The process before run_backtest has read anything; the file may be
\* missing or unreadable, and a file that is there has any of the columns.
\* In a file without a closing price column the field close of the rows
\* stands for the other columns and is never read.
InitData ==
    /\ pc = "load"
    /\ exit_status = -1
    /\ csv_state \in CsvStates
    /\ csv_columns \in IF csv_state = "ok" THEN SUBSET CsvColumns ELSE {{}}
    /\ csv_file \in IF csv_state = "ok" THEN CsvFiles ELSE {<< >>}
    /\ TRADE_QUANTITY \in {One}
    /\ initial_capital \in {1000 * One}
    /\ df_historical = << >>
    /\ i = 0
    /\ strategy = "any"
    /\ strategy_calls = << >>
    /\ current_balance = 0
    /\ current_position = InitPosition
    /\ uuid_count = 0
    /\ last_order = NoOrder
    /\ orders = << >>
    /\ session_log_filename = NoFile
    /\ log_file = << >>
    /\ log_calls = << >>
    /\ commission_rate = BACKTEST_COMMISSION_RATE
    /\ twin = NoTwin
    /\ live = NoLive
    /\ exchange = NoExchange
    /\ download = NoDownload

\* except FileNotFoundError / except Exception: print and sys.exit(1).
LoadError ==
    /\ pc = "load"
    /\ LoadFails(csv_state, csv_columns)
    /\ pc' = "exit"
    /\ exit_status' = 1
    /\ UNCHANGED << csv_state, strategy, commission_rate, live, exchange, download,
                    csv_columns, csv_file, TRADE_QUANTITY, initial_capital,
                    df_historical, i, strategy_calls, current_balance, current_position,
                    uuid_count, last_order, orders, session_log_filename, log_file,
                    log_calls, twin >>

\* df_historical.iloc[i]['close'] on a series without that column: a
\* KeyError nothing catches, raised before the strategy is called; the
\* interpreter prints the traceback and exits with status 1.
BarKeyError ==
    /\ pc = "replay"
    /\ i < Len(df_historical)
    /\ "close" \notin Renamed(csv_columns)
    /\ pc' = "crashed"
    /\ exit_status' = 1
    /\ UNCHANGED << csv_state, strategy, commission_rate, live, exchange, download,
                    csv_columns, csv_file, TRADE_QUANTITY, initial_capital,
                    df_historical, i, strategy_calls, current_balance, current_position,
                    uuid_count, last_order, orders, session_log_filename, log_file,
                    log_calls, twin >>

NextData == Next \/ LoadError \/ BarKeyError

SpecData == InitData /\ [][NextData]_vars

-----------------------------------------------------------------------------
(* run_backtest with a strategy that changes the frame it is given *)

\* Historical data files stored oldest first, the price being one of the
\* two lowest and the same on every candle.
IsolationFiles ==
    {f \in CsvFiles :
        /\ \A k \in 1..Len(f) : f[k].Timestamp = k /\ f[k].close <= 100
        /\ \A k \in 1..Len(f) - 1 : f[k].close = f[k + 1].close}

\* The process before run_backtest has read anything, the strategy being one
\* that may change its argument in any way on any call.
InitIsolation ==
    /\ pc = "load"
    /\ exit_status = -1
    /\ csv_state = "ok"
    /\ csv_columns = {"Timestamp", "close"}
    /\ csv_file \in IsolationFiles
    /\ TRADE_QUANTITY \in {One}
    /\ initial_capital \in {1000 * One}
    /\ df_historical = << >>
    /\ i = 0
    /\ strategy = "mutating"
    /\ strategy_calls = << >>
    /\ current_balance = 0
    /\ current_position = InitPosition
    /\ uuid_count = 0
    /\ last_order = NoOrder
    /\ orders = << >>
    /\ session_log_filename = NoFile
    /\ log_file = << >>
    /\ log_calls = << >>
    /\ commission_rate = BACKTEST_COMMISSION_RATE
    /\ twin = NoTwin
    /\ live = NoLive
    /\ exchange = NoExchange
    /\ download = NoDownload

SpecIsolation == InitIsolation /\ [][Next]_vars

-----------------------------------------------------------------------------
(* run_backtest with the RSI strategy on a series longer than its warm-up *)

\* Historical data files stored oldest first, of up to RSI_PERIOD - 1 +
\* MaxBars rows: the price is 100 on the first RSI_PERIOD rows and any of
\* Prices on the rows after them.
WarmupFiles ==
    UNION {{[k \in 1..n |-> [Timestamp |-> k,
                             close |-> IF k <= RSI_PERIOD THEN 100 ELSE f[k]]] :
               f \in [(RSI_PERIOD + 1)..n -> Prices]} : n \in 0..(RSI_PERIOD - 1 + MaxBars)}

\* The process before run_backtest has read anything, the strategy being
\* the one backtester.py imports.
InitWarmup ==
    /\ pc = "load"
    /\ exit_status = -1
    /\ csv_state = "ok"
    /\ csv_columns = {"Timestamp", "close"}
    /\ csv_file \in WarmupFiles
    /\ TRADE_QUANTITY \in {One}
    /\ initial_capital \in {1000 * One}
    /\ df_historical = << >>
    /\ i = 0
    /\ strategy = "rsi"
    /\ strategy_calls = << >>
    /\ current_balance = 0
    /\ current_position = InitPosition
    /\ uuid_count = 0
    /\ last_order = NoOrder
    /\ orders = << >>
    /\ session_log_filename = NoFile
    /\ log_file = << >>
    /\ log_calls = << >>
    /\ commission_rate = BACKTEST_COMMISSION_RATE
    /\ twin = NoTwin
    /\ live = NoLive
    /\ exchange = NoExchange
    /\ download = NoDownload

SpecWarmup == InitWarmup /\ [][Next]_vars

-----------------------------------------------------------------------------
(* run_backtest on a file whose rows are in any order *)

\* Timestamps of the rows of such a file: few enough for rows to share one.
SeriesTimestamps == {1, 2}

\* Historical data files of up to MaxBars rows in any order, rows with the
\* same Timestamp allowed, over the two lowest prices.
AnyOrderFiles ==
    UNION {[1..n -> [Timestamp : SeriesTimestamps, close : {c \in Prices : c <= 100}]] :
           n \in 0..MaxBars}

\* The process before run_backtest has read anything, for any such file.
InitSeries ==
    /\ pc = "load"
    /\ exit_status = -1
    /\ csv_state = "ok"
    /\ csv_columns = {"Timestamp", "close"}
    /\ csv_file \in AnyOrderFiles
    /\ TRADE_QUANTITY \in {One}
    /\ initial_capital \in {1000 * One}
    /\ df_historical = << >>
    /\ i = 0
    /\ strategy = "any"
    /\ strategy_calls = << >>
    /\ current_balance = 0
    /\ current_position = InitPosition
    /\ uuid_count = 0
    /\ last_order = NoOrder
    /\ orders = << >>
    /\ session_log_filename = NoFile
    /\ log_file = << >>
    /\ log_calls = << >>
    /\ commission_rate = BACKTEST_COMMISSION_RATE
    /\ twin = NoTwin
    /\ live = NoLive
    /\ exchange = NoExchange
    /\ download = NoDownload

SpecSeries == InitSeries /\ [][Next]_vars

-----------------------------------------------------------------------------
(* Two runs of run_backtest that differ in the commission rate only *)

\* Commission rates in [0, 1), in units of 1e-5: none, the configured one, a half.
CommissionRates == {0, BACKTEST_COMMISSION_RATE, 50000}

\* The two processes before run_backtest has read anything: the same file,
\* trade quantity and capital, two different commission rates.  The steps
\* take both runs through the same handler with the same signal.
InitCommission ==
    /\ pc = "load"
    /\ exit_status = -1
    /\ csv_state = "ok"
    /\ csv_columns = {"Timestamp", "close"}
    /\ csv_file \in {f \in CsvFiles : \A k \in 1..Len(f) : f[k].Timestamp = k}
    /\ TRADE_QUANTITY \in {One}
    /\ initial_capital \in {1000 * One}
    /\ df_historical = << >>
    /\ i = 0
    /\ strategy = "any"
    /\ strategy_calls = << >>
    /\ current_balance = 0
    /\ current_position = InitPosition
    /\ uuid_count = 0
    /\ last_order = NoOrder
    /\ orders = << >>
    /\ session_log_filename = NoFile
    /\ log_file = << >>
    /\ log_calls = << >>
    /\ commission_rate \in CommissionRates
    /\ \E rate \in CommissionRates \ {commission_rate} :
          twin = [World EXCEPT !.commission_rate = rate]
    /\ live = NoLive
    /\ exchange = NoExchange
    /\ download = NoDownload

SpecCommission == InitCommission /\ [][Next]_vars

-----------------------------------------------------------------------------
(* The simulated client driven directly by any caller *)

\* Order quantities: below, at and above Epsilon, 1.0 and 2.0.
ClientQuantities == {1, Epsilon, 3, One, 2 * One}

ClientPrices == {100, 110, 200}

\* A new SimulatedBybitClient.
InitClient ==
    /\ pc = "client"
    /\ exit_status = -1
    /\ csv_state = "ok"
    /\ csv_columns = {"Timestamp", "close"}
    /\ csv_file = << >>
    /\ TRADE_QUANTITY \in {One}
    /\ initial_capital \in {c * One : c \in InitialCapitals}
    /\ df_historical = << >>
    /\ i = 0
    /\ strategy = "any"
    /\ strategy_calls = << >>
    /\ current_balance = initial_capital
    /\ current_position = InitPosition
    /\ uuid_count = 0
    /\ last_order = NoOrder
    /\ orders = << >>
    /\ session_log_filename = NoFile
    /\ log_file = << >>
    /\ log_calls = << >>
    /\ commission_rate = BACKTEST_COMMISSION_RATE
    /\ twin = NoTwin
    /\ live = NoLive
    /\ exchange = NoExchange
    /\ download = NoDownload

\* One execute_order call with a positive quantity.
ClientOrder ==
    /\ pc = "client"
    /\ uuid_count < MaxCalls
    /\ \E order_side \in {"Buy", "Sell"}, quantity \in ClientQuantities, price \in ClientPrices :
          LET handler(w) == execute_order(w, -1, SYMBOL, order_side, quantity, price)
          IN  Commit(handler(World)) /\ twin' = (IF twin = NoTwin THEN twin ELSE handler(twin))
    /\ UNCHANGED << pc, exit_status, csv_state, strategy, commission_rate, live, exchange, download,
                    csv_columns, csv_file, TRADE_QUANTITY,
                    initial_capital, df_historical, i, strategy_calls >>

NextClient == ClientOrder

SpecClient == InitClient /\ [][NextClient]_vars

-----------------------------------------------------------------------------
(* The trade logger driven directly by any caller in one process *)

\* Most log_trade calls of one process.
MaxLogCalls == 3

LogSymbols == {"BTCUSDT", "ETHUSDT"}

LogActions == {"OPEN_POSITION", "CLOSE_POSITION"}

\* pnl arguments: none, and a loss that ".2f" rounds.
LogPnls == {0, -3}

\* A process that has imported trade_logger: session_log_filename is None.
InitLogger ==
    /\ pc = "logger"
    /\ exit_status = -1
    /\ csv_state = "ok"
    /\ csv_columns = {"Timestamp", "close"}
    /\ csv_file = << >>
    /\ TRADE_QUANTITY \in {One}
    /\ initial_capital \in {1000 * One}
    /\ df_historical = << >>
    /\ i = 0
    /\ strategy = "any"
    /\ strategy_calls = << >>
    /\ current_balance = initial_capital
    /\ current_position = InitPosition
    /\ uuid_count = 0
    /\ last_order = NoOrder
    /\ orders = << >>
    /\ session_log_filename = NoFile
    /\ log_file = << >>
    /\ log_calls = << >>
    /\ commission_rate = BACKTEST_COMMISSION_RATE
    /\ twin = NoTwin
    /\ live = NoLive
    /\ exchange = NoExchange
    /\ download = NoDownload

\* One log_trade call, for a backtest or for live trading.
LoggerCall ==
    /\ pc = "logger"
    /\ Len(log_calls) < MaxLogCalls
    /\ \E symbol \in LogSymbols, action \in LogActions, pnl \in LogPnls, is_backtest \in BOOLEAN :
          LET handler(w) ==
                  log_trade(w, symbol, action, "Buy", TRADE_QUANTITY, 100, pnl,
                            initial_capital + pnl, << "uuid", Len(log_calls) + 1 >>,
                            "EXECUTED", is_backtest)
          IN  Commit(handler(World)) /\ twin' = (IF twin = NoTwin THEN twin ELSE handler(twin))
    /\ UNCHANGED << pc, exit_status, csv_state, strategy, commission_rate, live, exchange, download,
                    csv_columns, csv_file, TRADE_QUANTITY,
                    initial_capital, df_historical, i, strategy_calls >>

NextLogger == LoggerCall

SpecLogger == InitLogger /\ [][NextLogger]_vars

-----------------------------------------------------------------------------
(* The end-to-end scenario of the specification: four bars *)

E2ECloses == << 100, 105, 95, 120 >>

E2ESignals == << "WAIT", "WAIT", "BUY", "SELL" >>

E2EPrices == {E2ECloses[k] : k \in 1..Len(E2ECloses)}

\* Every series of as many bars as the scenario over the scenario's
\* closing prices, trade quantity 1.0, initial capital 1000; any signals.
InitE2E ==
    /\ pc = "load"
    /\ exit_status = -1
    /\ csv_state = "ok"
    /\ csv_columns = {"Timestamp", "close"}
    /\ csv_file \in {[k \in 1..Len(E2ECloses) |-> [Timestamp |-> k, close |-> f[k]]] :
                        f \in [1..Len(E2ECloses) -> E2EPrices]}
    /\ TRADE_QUANTITY = One
    /\ initial_capital = 1000 * One
    /\ df_historical = << >>
    /\ i = 0
    /\ strategy = "any"
    /\ strategy_calls = << >>
    /\ current_balance = 0
    /\ current_position = InitPosition
    /\ uuid_count = 0
    /\ last_order = NoOrder
    /\ orders = << >>
    /\ session_log_filename = NoFile
    /\ log_file = << >>
    /\ log_calls = << >>
    /\ commission_rate = BACKTEST_COMMISSION_RATE
    /\ twin = NoTwin
    /\ live = NoLive
    /\ exchange = NoExchange
    /\ download = NoDownload

SpecE2E == InitE2E /\ [][Next]_vars

-----------------------------------------------------------------------------
(* main.py: main_bot_loop against the exchange *)

\* Most iterations of the polling loop followed.
MaxIterations == 2

\* config.SYMBOL.
LIVE_SYMBOL == "BTCUSDT"

\* Last closing prices the exchange reports.
LivePrices == {100, 110}

\* The positions the account may hold when the bot starts; the exchange
\* names the sides Buy and Sell.
ExchangePositions ==
    {[size |-> 0, side |-> "None", avgPrice |-> 0],
     [size |-> One, side |-> "Buy", avgPrice |-> 100],
     [size |-> One, side |-> "Sell", avgPrice |-> 100]}

\* The steps of one iteration that are inside the try block.
LiveTry == {"live_fetch", "live_signal", "live_query", "live_close", "live_close_log",
            "live_wait", "live_open", "live_open_log", "live_sleep", "live_retry"}

\* The exchange account after a market order; an order the exchange did not
\* accept (place_order returned None) only shows in the orders received.
ExchangeOrder(x, iteration, side, qty, price, accepted) ==
    LET order == [iteration |-> iteration, side |-> side, qty |-> qty, accepted |-> accepted]
        after ==
            IF ~accepted THEN x
            ELSE IF x.side = "None"
            THEN [x EXCEPT !.size = qty, !.side = side, !.avgPrice = price]
            ELSE IF x.side = side
            THEN [x EXCEPT !.size = @ + qty,
                           !.avgPrice = (x.size * x.avgPrice + qty * price) \div (x.size + qty)]
            ELSE IF qty < x.size THEN [x EXCEPT !.size = @ - qty]
            ELSE IF qty = x.size THEN [x EXCEPT !.size = 0, !.side = "None", !.avgPrice = 0]
            ELSE [x EXCEPT !.size = qty - x.size, !.side = side, !.avgPrice = price]
    IN  [after EXCEPT !.orders = Append(@, order)]

\* main_bot_loop entering while True, the client created.
InitLive ==
    /\ pc = "live_fetch"
    /\ exit_status = -1
    /\ csv_state = "ok"
    /\ csv_columns = {"Timestamp", "close"}
    /\ csv_file = << >>
    /\ TRADE_QUANTITY \in {One}
    /\ initial_capital \in {1000 * One}
    /\ df_historical = << >>
    /\ i = 0
    /\ strategy = "any"
    /\ strategy_calls = << >>
    /\ current_balance = 0
    /\ current_position = InitPosition
    /\ uuid_count = 0
    /\ last_order = NoOrder
    /\ orders = << >>
    /\ session_log_filename = NoFile
    /\ log_file = << >>
    /\ log_calls = << >>
    /\ commission_rate = BACKTEST_COMMISSION_RATE
    /\ twin = NoTwin
    /\ live = [iteration |-> 0, signal |-> "NONE", current_price |-> 0,
               current_position_size |-> 0, current_position_side |-> "None",
               current_avg_entry_price |-> 0, current_balance |-> 0,
               exceptions |-> 0, stopped_at |-> "running"]
    /\ \E position \in ExchangePositions :
          exchange = [size |-> position.size, side |-> position.side,
                      avgPrice |-> position.avgPrice, balance |-> initial_capital,
                      orders |-> << >>]
    /\ download = NoDownload

\* What the live loop never touches.
LiveFrame ==
    UNCHANGED << exit_status, csv_state, csv_columns, csv_file, TRADE_QUANTITY,
                 initial_capital, df_historical, i, strategy, strategy_calls,
                 commission_rate, twin, download >>

\* The simulated client and the log, for the steps that do not log.
LiveNoLog ==
    UNCHANGED << current_balance, current_position, uuid_count, last_order, orders,
                 session_log_filename, log_file, log_calls >>

\* api_client.get_klines and the DataFrame made of it: no klines (get_klines
\* returns [] on every error), or klines whose last close is the price.
LiveFetch ==
    /\ pc = "live_fetch"
    /\ live.iteration < MaxIterations
    /\ \/ /\ pc' = "live_retry"
          /\ live' = live
       \/ \E price \in LivePrices :
             /\ pc' = "live_signal"
             /\ live' = [live EXCEPT !.current_price = price]
    /\ UNCHANGED exchange
    /\ LiveFrame /\ LiveNoLog

\* signal = generate_signal(df_klines.copy()).
LiveSignal ==
    /\ pc = "live_signal"
    /\ \E signal \in Signals : live' = [live EXCEPT !.signal = signal]
    /\ pc' = "live_query"
    /\ UNCHANGED exchange
    /\ LiveFrame /\ LiveNoLog

\* get_current_position (which answers 0.0, "None", None on every error),
\* get_wallet_balance, and the branch the signal and the position select.
LiveQuery ==
    /\ pc = "live_query"
    /\ \E failed \in BOOLEAN :
          LET size == IF failed THEN 0 ELSE exchange.size
              side == IF failed THEN "None" ELSE exchange.side
              avg  == IF failed THEN 0 ELSE exchange.avgPrice
          IN  /\ live' = [live EXCEPT !.current_position_size = size,
                                      !.current_position_side = side,
                                      !.current_avg_entry_price = avg,
                                      !.current_balance = exchange.balance]
              /\ pc' = CASE live.signal = "BUY" /\ size = 0 -> "live_open"
                          [] live.signal = "BUY" /\ size # 0 /\ side = "Sell" -> "live_close"
                          [] live.signal = "SELL" /\ size = 0 -> "live_open"
                          [] live.signal = "SELL" /\ size # 0 /\ side = "Buy" -> "live_close"
                          [] OTHER -> "live_sleep"
    /\ UNCHANGED exchange
    /\ LiveFrame /\ LiveNoLog

\* api_client.close_position(symbol, current_position_side, close_qty): a
\* market order on the other side; what it returns is not looked at.
LiveClose ==
    /\ pc = "live_close"
    /\ \E accepted \in BOOLEAN :
          exchange' = ExchangeOrder(exchange, live.iteration,
                                    IF live.current_position_side = "Buy" THEN "Sell" ELSE "Buy",
                                    live.current_position_size, live.current_price, accepted)
    /\ pc' = "live_close_log"
    /\ UNCHANGED live
    /\ LiveFrame /\ LiveNoLog

\* log_trade(..., "CLOSE_POSITION", ...) with the pnl estimated from the
\* average entry price.
LiveCloseLog ==
    /\ pc = "live_close_log"
    /\ LET close_qty == live.current_position_size
           short == live.current_position_side = "Sell"
           pnl_on_close == IF short
                           THEN (live.current_avg_entry_price - live.current_price) * close_qty
                           ELSE (live.current_price - live.current_avg_entry_price) * close_qty
       IN  Commit(log_trade(World, LIVE_SYMBOL, "CLOSE_POSITION",
                            IF short THEN "Buy" ELSE "Sell", close_qty, live.current_price,
                            pnl_on_close, live.current_balance, << "" >>,
                            IF short THEN "CLOSED SHORT" ELSE "CLOSED LONG", FALSE))
    /\ pc' = "live_wait"
    /\ UNCHANGED << live, exchange >>
    /\ LiveFrame

\* time.sleep(5) between the close and the open of a reversal.
LiveWait ==
    /\ pc = "live_wait"
    /\ pc' = "live_open"
    /\ UNCHANGED << live, exchange >>
    /\ LiveFrame /\ LiveNoLog

\* order_response = api_client.place_order(symbol, side, TRADE_QUANTITY).
LiveOpen ==
    /\ pc = "live_open"
    /\ \E accepted \in BOOLEAN :
          /\ exchange' = ExchangeOrder(exchange, live.iteration,
                                       IF live.signal = "BUY" THEN "Buy" ELSE "Sell",
                                       TRADE_QUANTITY, live.current_price, accepted)
          /\ pc' = IF accepted THEN "live_open_log" ELSE "live_sleep"
    /\ UNCHANGED live
    /\ LiveFrame /\ LiveNoLog

\* if order_response: log_trade(..., "OPEN_POSITION", ..., status="SUBMITTED").
LiveOpenLog ==
    /\ pc = "live_open_log"
    /\ Commit(log_trade(World, LIVE_SYMBOL, "OPEN_POSITION",
                        IF live.signal = "BUY" THEN "Buy" ELSE "Sell", TRADE_QUANTITY,
                        live.current_price, 0, live.current_balance,
                        << "orderId", Len(exchange.orders) >>, "SUBMITTED", FALSE))
    /\ pc' = "live_sleep"
    /\ UNCHANGED << live, exchange >>
    /\ LiveFrame

\* time.sleep at the end of the iteration (or before continue): the next
\* iteration starts.
LiveSleep ==
    /\ pc \in {"live_sleep", "live_retry"}
    /\ pc' = "live_fetch"
    /\ live' = [live EXCEPT !.iteration = @ + 1]
    /\ UNCHANGED exchange
    /\ LiveFrame /\ LiveNoLog

\* Exceptions the operations of an iteration raise: of the network, of the
\* conversion of the klines, of the strategy, of the log file.
LiveExceptions == {"ConnectionError", "ValueError", "KeyError", "OSError"}

\* Variant of ExceptClause that names the exception it expects.
ExceptClauseValueError(exception) == exception = "ValueError"

\* except Exception as e: every exception of the iteration's operations is
\* an Exception.
ExceptClause(exception) == exception \in LiveExceptions

\* The operation of a step inside the try block raises, before it has had
\* any effect: control goes to the except clause, and out of the loop if
\* the clause does not take the exception.
LiveRaise ==
    /\ pc \in LiveTry
    /\ live.iteration < MaxIterations
    /\ \E exception \in LiveExceptions :
          IF ExceptClause(exception)
          THEN /\ pc' = "live_error"
               /\ live' = [live EXCEPT !.exceptions = @ + 1]
               /\ exit_status' = exit_status
          ELSE /\ pc' = "crashed"
               /\ live' = [live EXCEPT !.stopped_at = pc]
               /\ exit_status' = 1
    /\ UNCHANGED << exchange, download, csv_state, csv_columns, csv_file, TRADE_QUANTITY,
                    initial_capital, df_historical, i, strategy, strategy_calls,
                    commission_rate, twin >>
    /\ LiveNoLog

\* except Exception: print, time.sleep(300), and the while goes round.
LiveError ==
    /\ pc = "live_error"
    /\ pc' = "live_fetch"
    /\ live' = [live EXCEPT !.iteration = @ + 1]
    /\ UNCHANGED exchange
    /\ LiveFrame /\ LiveNoLog

NextLive ==
    \/ LiveFetch \/ LiveSignal \/ LiveQuery \/ LiveClose \/ LiveCloseLog \/ LiveWait
    \/ LiveOpen \/ LiveOpenLog \/ LiveSleep \/ LiveRaise \/ LiveError

\* The loop keeps running: nothing but the end of the process stops it.
SpecLive == InitLive /\ [][NextLive]_vars /\ WF_vars(NextLive)

\* KeyboardInterrupt (Ctrl-C, SIGINT), which except Exception does not catch
\* and which is the one way the loop has of being stopped: it may arrive at
\* any step, the except clause included, and ends the process.
LiveInterrupt ==
    /\ pc \in LiveTry \cup {"live_error"}
    /\ live.iteration < MaxIterations
    /\ pc' = "killed"
    /\ exit_status' = 130
    /\ live' = [live EXCEPT !.stopped_at = pc]
    /\ UNCHANGED << exchange, download, csv_state, csv_columns, csv_file, TRADE_QUANTITY,
                    initial_capital, df_historical, i, strategy, strategy_calls,
                    commission_rate, twin >>
    /\ LiveNoLog

NextLiveInterrupt == NextLive \/ LiveInterrupt

SpecLiveInterrupt == InitLive /\ [][NextLiveInterrupt]_vars

-----------------------------------------------------------------------------
(* data_downloader.py: download_historical_klines *)

\* Latest time, in kline intervals, of the dates asked for; the exchange has
\* klines up to one interval later.
MaxTime == 3

\* limit: the most klines of one request (1000 in the source; 2 here, so
\* that a range of a few klines takes several requests).
limit == 2

\* The start times of the klines the exchange may have.
KlineTimes == 0..(MaxTime + 1)

RECURSIVE Descending(_)
\* The elements of a set of times, latest first.
Descending(S) ==
    IF S = {} THEN << >>
    ELSE LET latest == CHOOSE x \in S : \A y \in S : y <= x
         IN  << latest >> \o Descending(S \ {latest})

\* session.get_kline(..., limit=limit, end=end)['result']['list']: the
\* klines starting at or before end, latest first, limit of them at most.
\* A kline is known by its start time kline[0].
get_kline(market, end) ==
    LET list == Descending({t \in market : t <= end})
    IN  SubSeq(list, 1, Min(limit, Len(list)))

\* all_klines = klines + all_klines.
Accumulate(klines, all_klines) == klines \o all_klines

\* Variant of NextEnd that asks again from the oldest kline received.
NextEndSameKline(klines) == klines[Len(klines)]

\* current_end_timestamp_ms = int(klines[-1][0]); current_end_timestamp_ms -= 1.
NextEnd(klines) == klines[Len(klines)] - 1

\* The klines of all_klines with start_ts_ms <= kline_ts_ms <= end_ts_ms.
FinalKlines(all_klines, start_ts_ms, end_ts_ms) ==
    SelectSeq(all_klines, LAMBDA t : start_ts_ms <= t /\ t <= end_ts_ms)

\* What download_historical_klines never touches.
DownloadFrame ==
    UNCHANGED << pc, exit_status, csv_state, csv_columns, csv_file, TRADE_QUANTITY,
                 initial_capital, df_historical, i, strategy, strategy_calls,
                 current_balance, current_position, uuid_count, last_order, orders,
                 session_log_filename, log_file, log_calls, commission_rate, twin,
                 live, exchange >>

\* download_historical_klines called for any two dates, with or without the
\* API keys in the environment, the exchange having any klines.
InitDownload ==
    /\ pc = "download"
    /\ exit_status = -1
    /\ csv_state = "missing"
    /\ csv_columns = {}
    /\ csv_file = << >>
    /\ TRADE_QUANTITY \in {One}
    /\ initial_capital \in {1000 * One}
    /\ df_historical = << >>
    /\ i = 0
    /\ strategy = "any"
    /\ strategy_calls = << >>
    /\ current_balance = 0
    /\ current_position = InitPosition
    /\ uuid_count = 0
    /\ last_order = NoOrder
    /\ orders = << >>
    /\ session_log_filename = NoFile
    /\ log_file = << >>
    /\ log_calls = << >>
    /\ commission_rate = BACKTEST_COMMISSION_RATE
    /\ twin = NoTwin
    /\ live = NoLive
    /\ exchange = NoExchange
    /\ \E keys \in BOOLEAN, start_ts_ms \in 0..MaxTime, end_ts_ms \in 0..MaxTime,
          market \in SUBSET KlineTimes :
          download = [pc |-> "start", keys |-> keys, market |-> market,
                      start_ts_ms |-> start_ts_ms, end_ts_ms |-> end_ts_ms,
                      current_end_timestamp_ms |-> 0, all_klines |-> << >>,
                      requests |-> 0, output |-> << >>, written |-> FALSE]

\* if not api_key or not api_secret: return.
DownloadNoKeys ==
    /\ download.pc = "start"
    /\ ~download.keys
    /\ download' = [download EXCEPT !.pc = "returned"]
    /\ DownloadFrame

\* Up to the loop: all_klines = [], the cursor at the end date.
DownloadBegin ==
    /\ download.pc = "start"
    /\ download.keys
    /\ download' = [download EXCEPT !.pc = "loop", !.all_klines = << >>,
                                    !.current_end_timestamp_ms = download.end_ts_ms]
    /\ DownloadFrame

\* if current_end_timestamp_ms < start: break.
DownloadStartReached ==
    /\ download.pc = "loop"
    /\ download.current_end_timestamp_ms < download.start_ts_ms
    /\ download' = [download EXCEPT !.pc = "filter"]
    /\ DownloadFrame

\* One request answered with klines: they go in front of all_klines and the
\* cursor moves before the last of them.
DownloadPage ==
    /\ download.pc = "loop"
    /\ download.current_end_timestamp_ms >= download.start_ts_ms
    /\ LET klines == get_kline(download.market, download.current_end_timestamp_ms)
       IN  /\ klines # << >>
           /\ download' = [download EXCEPT
                              !.all_klines = Accumulate(klines, @),
                              !.current_end_timestamp_ms = NextEnd(klines),
                              !.requests = @ + 1]
    /\ DownloadFrame

\* One request answered with no klines: break.
DownloadEmpty ==
    /\ download.pc = "loop"
    /\ download.current_end_timestamp_ms >= download.start_ts_ms
    /\ get_kline(download.market, download.current_end_timestamp_ms) = << >>
    /\ download' = [download EXCEPT !.pc = "filter", !.requests = @ + 1]
    /\ DownloadFrame

\* One request answered with retCode != 0: break.
DownloadApiError ==
    /\ download.pc = "loop"
    /\ download.current_end_timestamp_ms >= download.start_ts_ms
    /\ download' = [download EXCEPT !.pc = "filter", !.requests = @ + 1]
    /\ DownloadFrame

\* The request raises: except Exception, break.
DownloadException ==
    /\ download.pc = "loop"
    /\ download.current_end_timestamp_ms >= download.start_ts_ms
    /\ download' = [download EXCEPT !.pc = "filter"]
    /\ DownloadFrame

\* After the loop: the klines in range, in the order of all_klines, go to
\* the CSV file.
DownloadWrite ==
    /\ download.pc = "filter"
    /\ LET final_klines == FinalKlines(download.all_klines, download.start_ts_ms,
                                        download.end_ts_ms)
       IN  /\ final_klines # << >>
           /\ download' = [download EXCEPT !.pc = "written", !.output = final_klines,
                                           !.written = TRUE]
    /\ DownloadFrame

\* if not final_klines: return, nothing written.
DownloadNothing ==
    /\ download.pc = "filter"
    /\ FinalKlines(download.all_klines, download.start_ts_ms, download.end_ts_ms) = << >>
    /\ download' = [download EXCEPT !.pc = "returned"]
    /\ DownloadFrame

NextDownload ==
    \/ DownloadNoKeys \/ DownloadBegin \/ DownloadStartReached \/ DownloadPage
    \/ DownloadEmpty \/ DownloadApiError \/ DownloadException
    \/ DownloadWrite \/ DownloadNothing

\* The function runs on: every step it can take it takes.
SpecDownload == InitDownload /\ [][NextDownload]_vars /\ WF_vars(NextDownload)

-----------------------------------------------------------------------------
(* Properties *)

\* The data rows of a log file.
DataRows(file) == SelectSeq(file, LAMBDA r : r.row = "data")

\* The sequence of the values of one field of a sequence of records.
PnlArgs(rows) == [k \in 1..Len(rows) |-> rows[k].pnl]

PnlColumn(rows) == [k \in 1..Len(rows) |-> rows[k].PNL]

Closes(df) == [k \in 1..Len(df) |-> df[k].close]

SignalsGiven == [k \in 1..Len(strategy_calls) |-> strategy_calls[k].signal]

\* The fills run_backtest submitted on the bar with 0-based index bar.
OrdersOfBar(bar) == SelectSeq(orders, LAMBDA o : o.bar = bar)

Flat == [size |-> 0, side |-> "None", entry_price |-> 0]

Pos(position) == [size |-> position.size, side |-> position.side, entry_price |-> position.entry_price]

\* C1.  Flat-at-end: when run_backtest has finished on a series of at least
\* one bar, whatever the signals and the positive trade quantity, the
\* position is FLAT ('None') with size 0.
C1_FlatAtEnd ==
    (pc = "done" /\ Len(df_historical) >= 1 /\ TRADE_QUANTITY > 0)
        => (current_position.side = "None" /\ current_position.size = 0)

\* C2.  Causality: the strategy call made for bar i receives exactly the
\* candles 0..i of the sorted series, i+1 of them, and none after i; there
\* is one call per bar, in bar order.
C2_Causality ==
    /\ Len(strategy_calls) = i
    /\ \A k \in 1..Len(strategy_calls) :
          LET call == strategy_calls[k]
          IN  /\ call.i = k - 1
              /\ Len(call.df_klines) = call.i + 1
              /\ \A j \in 1..Len(call.df_klines) : call.df_klines[j] = df_historical[j]

\* C2 happens: a call for a bar that is neither the first nor the last.
C2_Witness ==
    \E k \in 1..Len(strategy_calls) :
        strategy_calls[k].i >= 1 /\ Len(df_historical) > strategy_calls[k].i + 1

\* C3 as stated.  Balance conservation on the file: at the end of a run the
\* PNL values of the records in the trade log sum to final balance minus
\* initial balance.
C3_WrittenPnlSumsToNet ==
    pc = "done" => Sum(PnlColumn(DataRows(log_file))) = current_balance - initial_capital

\* C3 amended.  The balance is the initial balance plus the pnl passed to
\* log_trade for each record so far, during the run and at its end: every
\* change of the balance is recorded with its pnl (the file holds that pnl
\* rounded to two decimals).
C3_BalanceConservation ==
    pc \in {"replay", "done"}
        => current_balance = initial_capital + Sum(PnlArgs(DataRows(log_file)))

\* C3 happens: a finished run that realised a pnl the file does not hold exactly.
C3_Witness ==
    /\ pc = "done"
    /\ current_balance # initial_capital
    /\ \E k \in 1..Len(log_file) :
          log_file[k].row = "data" /\ log_file[k].PNL # log_file[k].pnl

\* C4.  A fill on the side of the existing position (BUY against LONG, SELL
\* against SHORT) of size above epsilon extends it: success, size grows by
\* the quantity, the entry price becomes the weighted average, pnl 0,
\* balance unchanged.
C4_Extending ==
    LET o == last_order
        before == o.position_before
    IN  ( /\ uuid_count > 0
          /\ before.size > Epsilon
          /\ \/ o.order_side = "Buy" /\ before.side = "Long"
             \/ o.order_side = "Sell" /\ before.side = "Short" )
        => /\ o.success
           /\ current_position.size = before.size + o.quantity
           /\ current_position.side = before.side
           /\ current_position.entry_price * (before.size + o.quantity)
                = before.size * before.entry_price + o.quantity * o.price
           /\ o.pnl = 0
           /\ current_balance = o.balance_before

\* C5.  End to end: closes 100, 105, 95, 120 with signals WAIT, WAIT, BUY,
\* SELL, quantity 1 and capital 1000: bar 3 opens LONG 1@95 (balance 1000),
\* bar 4 closes it at 120 for pnl 25 (balance 1025) and opens SHORT 1@120,
\* the liquidation closes the SHORT at 120 for pnl 0; final balance 1025.
C5_EndToEnd ==
    ( /\ pc = "done"
      /\ Closes(df_historical) = E2ECloses
      /\ SignalsGiven = E2ESignals
      /\ TRADE_QUANTITY = One
      /\ initial_capital = 1000 * One )
    => /\ Len(orders) = 4
       /\ LET open_long == orders[1]
              close_long == orders[2]
              open_short == orders[3]
              final == orders[4]
          IN  /\ open_long.bar = 2 /\ open_long.kind = "opening" /\ open_long.success
              /\ open_long.order_side = "Buy" /\ open_long.quantity = One /\ open_long.price = 95
              /\ Pos(open_long.position_before) = Flat
              /\ open_long.pnl = 0 /\ open_long.balance_after_trade = 1000 * One
              /\ close_long.bar = 3 /\ close_long.kind = "closing" /\ close_long.success
              /\ close_long.order_side = "Sell" /\ close_long.quantity = One /\ close_long.price = 120
              /\ Pos(close_long.position_before) = [size |-> One, side |-> "Long", entry_price |-> 95]
              /\ close_long.pnl = 25 * One /\ close_long.balance_after_trade = 1025 * One
              /\ open_short.bar = 3 /\ open_short.kind = "opening" /\ open_short.success
              /\ open_short.order_side = "Sell" /\ open_short.quantity = One /\ open_short.price = 120
              /\ Pos(open_short.position_before) = Flat
              /\ open_short.pnl = 0 /\ open_short.balance_after_trade = 1025 * One
              /\ final.bar = 4 /\ final.kind = "closing" /\ final.success
              /\ final.order_side = "Buy" /\ final.quantity = One /\ final.price = 120
              /\ Pos(final.position_before) = [size |-> One, side |-> "Short", entry_price |-> 120]
              /\ final.pnl = 0 /\ final.balance_after_trade = 1025 * One
       /\ Pos(current_position) = Flat
       /\ current_balance = 1025 * One

\* C5 happens: the scenario has run to its end.
C5_Witness ==
    /\ pc = "done"
    /\ Closes(df_historical) = E2ECloses
    /\ SignalsGiven = E2ESignals
    /\ TRADE_QUANTITY = One
    /\ initial_capital = 1000 * One

\* C6.  Reversal sequencing: a BUY signal while SHORT (a SELL while LONG)
\* makes two fills on that bar, a close of the whole position then an open
\* of the trade quantity, both at the candle's close; afterwards the
\* position is on the opposite side, of size trade quantity, entered at
\* that close.
C6_Reversal ==
    LET bar == i - 1
        fills == OrdersOfBar(bar)
        signal == strategy_calls[i].signal
        close == df_historical[i].close
        before == fills[1].position_before
        order_side == IF signal = "BUY" THEN "Buy" ELSE "Sell"
    IN  ( /\ pc = "replay" /\ i >= 1
          /\ Len(fills) >= 1
          /\ \/ signal = "BUY" /\ before.side = "Short"
             \/ signal = "SELL" /\ before.side = "Long" )
        => /\ Len(fills) = 2
           /\ fills[1].order_side = order_side /\ fills[1].quantity = before.size
           /\ fills[1].price = close
           /\ fills[2].order_side = order_side /\ fills[2].quantity = TRADE_QUANTITY
           /\ fills[2].price = close
           /\ Pos(current_position) =
                 [size |-> TRADE_QUANTITY,
                  side |-> IF signal = "BUY" THEN "Long" ELSE "Short",
                  entry_price |-> close]

\* C7.  Failure policy: once execute_order has returned success = false on
\* a bar, the engine submits no further fill for that bar.
C7_NoFillAfterFailure ==
    \A k, l \in 1..Len(orders) :
        (k < l /\ ~orders[k].success) => orders[l].bar # orders[k].bar

\* C8.  The reject branch is never reached by the engine: every
\* execute_order call run_backtest makes returns success = true.
C8_NeverRejected ==
    \A k \in 1..Len(orders) : orders[k].success

\* C9.  Opening classification: a fill submitted while size <= epsilon,
\* size equal to epsilon included, opens: success, the position becomes
\* (quantity, LONG for BUY / SHORT for SELL, price), pnl 0, balance unchanged.
C9_Opening ==
    LET o == last_order
    IN  (uuid_count > 0 /\ o.position_before.size <= Epsilon)
        => /\ o.success
           /\ Pos(current_position) =
                 [size |-> o.quantity,
                  side |-> IF o.order_side = "Buy" THEN "Long" ELSE "Short",
                  entry_price |-> o.price]
           /\ o.pnl = 0
           /\ current_balance = o.balance_before

\* C10.  Position invariant: after any sequence of execute_order calls with
\* positive quantities, size > 0 exactly when side is not 'None' and
\* size = 0 exactly when side is 'None'.
C10_PositionInvariant ==
    /\ current_position.size >= 0
    /\ current_position.size > 0 <=> current_position.side # "None"
    /\ current_position.size = 0 <=> current_position.side = "None"

\* C10 happens: a closing fill smaller than the position has left a
\* position open.
C10_Witness ==
    /\ uuid_count >= 2
    /\ last_order.kind = "closing"
    /\ last_order.quantity < last_order.position_before.size
    /\ current_position.side # "None"

\* C11.  Close PnL sign: a fill on the side opposite to an open position
\* realizes (exit_price - entry_price) * close_amount when the position is
\* Long and (entry_price - exit_price) * close_amount when it is Short,
\* close_amount being the smaller of quantity and size, and the balance
\* grows by exactly that amount.
C11_ClosePnlSign ==
    LET o == last_order
        before == o.position_before
        close_amount == Min(o.quantity, before.size)
    IN  ( /\ uuid_count > 0
          /\ before.size > Epsilon
          /\ \/ before.side = "Long" /\ o.order_side = "Sell"
             \/ before.side = "Short" /\ o.order_side = "Buy" )
        => /\ o.success
           /\ before.side = "Long"
                 => o.pnl = (o.price - before.entry_price) * close_amount
           /\ before.side = "Short"
                 => o.pnl = (before.entry_price - o.price) * close_amount
           /\ current_balance = o.balance_before + o.pnl
           /\ o.balance_after_trade = current_balance

\* C11 happens: a Short of 2.0 entered at 100 is closed at 110 and realizes
\* -20.0.
C11_Witness ==
    /\ uuid_count >= 2
    /\ last_order.position_before = [symbol |-> SYMBOL, side |-> "Short",
                                      size |-> 2 * One, entry_price |-> 100]
    /\ last_order.order_side = "Buy"
    /\ last_order.quantity = 2 * One
    /\ last_order.price = 110
    /\ last_order.pnl = -20 * One
    /\ current_balance = last_order.balance_before - 20 * One

\* C12.  No-op idempotence: a bar whose signal is HOLD or WAIT submits no
\* fill, writes no record and leaves position and balance as they were,
\* whatever the position; as it holds of every such bar it holds of any
\* number of them in a row.
C12_HoldWaitNoOp ==
    [][ ( /\ pc = "replay"
          /\ i' = i + 1
          /\ strategy_calls'[i'].signal \in {"HOLD", "WAIT"} )
        => /\ current_position' = current_position
           /\ current_balance' = current_balance
           /\ orders' = orders
           /\ uuid_count' = uuid_count
           /\ log_file' = log_file
           /\ log_calls' = log_calls ]_vars

\* C12 happens: a position opened on the first bar has gone through a HOLD
\* bar and a WAIT bar.
C12_Witness ==
    /\ pc = "replay"
    /\ i = 3
    /\ strategy_calls[1].signal \in {"BUY", "SELL"}
    /\ strategy_calls[2].signal = "HOLD"
    /\ strategy_calls[3].signal = "WAIT"
    /\ current_position.side # "None"
    /\ Len(orders) = 1

\* C13.  Same-direction signals are no-ops: a BUY bar while Long, or a SELL
\* bar while Short, submits no fill, writes no record and leaves position
\* and balance as they were.
C13_SameDirectionNoOp ==
    [][ ( /\ pc = "replay"
          /\ i' = i + 1
          /\ \/ strategy_calls'[i'].signal = "BUY" /\ current_position.side = "Long"
             \/ strategy_calls'[i'].signal = "SELL" /\ current_position.side = "Short" )
        => /\ current_position' = current_position
           /\ current_balance' = current_balance
           /\ orders' = orders
           /\ uuid_count' = uuid_count
           /\ log_file' = log_file
           /\ log_calls' = log_calls ]_vars

\* C13 happens: a second BUY bar has passed while Long, and a second SELL
\* bar while Short is the same case mirrored.
C13_Witness ==
    /\ pc = "replay"
    /\ i = 2
    /\ strategy_calls[1].signal = "BUY"
    /\ strategy_calls[2].signal = "BUY"
    /\ current_position.side = "Long"
    /\ current_position.size > Epsilon
    /\ Len(orders) = 1
    /\ Len(log_calls) = 2
    /\ log_calls[2].action = "OPEN_POSITION"

\* C14.  A rejected fill mutates nothing: when execute_order returned
\* success = false, balance and position (size, side, entry_price) are what
\* they were before the call, the returned pnl is 0 and the returned
\* balance_after_trade is the unchanged balance.
C14_RejectedMutatesNothing ==
    LET o == last_order
    IN  (uuid_count > 0 /\ ~o.success)
        => /\ current_position = o.position_before
           /\ current_balance = o.balance_before
           /\ o.pnl = 0
           /\ o.balance_after_trade = o.balance_before

\* C14 happens: a Buy on a Long position that an earlier close has left
\* with a balance other than the initial one is rejected.
C14_Witness ==
    /\ uuid_count >= 3
    /\ ~last_order.success
    /\ last_order.order_side = "Buy"
    /\ last_order.position_before.side = "Long"
    /\ last_order.position_before.size > Epsilon
    /\ last_order.balance_before # initial_capital

\* C15.  Balance frame: a fill changes the balance only when it closes
\* (fully or partly) a position, and then by exactly the realized pnl with
\* no commission taken off; opening, extending and rejected fills leave the
\* balance as it was.
C15_BalanceFrame ==
    LET o == last_order
        before == o.position_before
        closes == /\ before.size > Epsilon
                  /\ \/ before.side = "Long" /\ o.order_side = "Sell"
                     \/ before.side = "Short" /\ o.order_side = "Buy"
        realized == IF before.side = "Long"
                    THEN (o.price - before.entry_price) * Min(o.quantity, before.size)
                    ELSE (before.entry_price - o.price) * Min(o.quantity, before.size)
    IN  uuid_count > 0
        => /\ closes => current_balance = o.balance_before + realized
           /\ ~closes => current_balance = o.balance_before
           /\ current_balance # o.balance_before => (closes /\ o.pnl = realized)

\* C15 happens: after a position was opened and closed at a loss, an
\* opening fill leaves the changed balance as it is.
C15_Witness ==
    /\ uuid_count = 3
    /\ last_order.kind = "opening"
    /\ last_order.success
    /\ last_order.position_before.side = "None"
    /\ current_position.size = last_order.quantity
    /\ last_order.balance_before < initial_capital
    /\ current_balance = last_order.balance_before

\* C16.  Terminal liquidation: when the loop is over and the position is not
\* flat, the engine issues exactly one fill, a closing one, of the full
\* remaining size at the last candle's close, and records it as
\* CLOSE_POSITION with status CLOSED_AT_END as the last record of the run;
\* when the position is flat it issues no fill and writes no record; no
\* record but the last one of a finished run has status CLOSED_AT_END.
C16_TerminalLiquidation ==
    /\ [][ (pc = "replay" /\ pc' = "done")
           => IF current_position.side # "None"
              THEN /\ Len(orders') = Len(orders) + 1
                   /\ LET o == orders'[Len(orders')]
                      IN  /\ o.kind = "closing"
                          /\ o.success
                          /\ o.order_side = (IF current_position.side = "Long"
                                             THEN "Sell" ELSE "Buy")
                          /\ o.quantity = current_position.size
                          /\ o.price = df_historical[Len(df_historical)].close
                   /\ Len(log_calls') = Len(log_calls) + 1
                   /\ Len(log_file') = Len(log_file) + 1
                   /\ LET c == log_calls'[Len(log_calls')]
                      IN  /\ c.action = "CLOSE_POSITION"
                          /\ c.status = "CLOSED_AT_END"
                          /\ c.quantity = current_position.size
                          /\ c.price = df_historical[Len(df_historical)].close
              ELSE /\ orders' = orders
                   /\ log_calls' = log_calls
                   /\ log_file' = log_file ]_vars
    /\ [](\A k \in 1..Len(log_calls) :
             log_calls[k].status = "CLOSED_AT_END"
                => (pc = "done" /\ k = Len(log_calls)))

\* The OPEN_POSITION and CLOSE_POSITION records of a log file, in file order.
TradeRows(file) ==
    SelectSeq(DataRows(file), LAMBDA r : r.Action \in {"OPEN_POSITION", "CLOSE_POSITION"})

\* C17.  Every opened position is matched by a close: in the log file of a
\* completed backtest the OPEN_POSITION and CLOSE_POSITION records
\* alternate strictly, starting with OPEN_POSITION; each CLOSE_POSITION has
\* the quantity of the OPEN_POSITION before it; there are as many of one as
\* of the other.
C17_OpensMatchedByCloses ==
    LET rows == TradeRows(log_file)
        calls == SelectSeq(log_calls,
                           LAMBDA c : c.action \in {"OPEN_POSITION", "CLOSE_POSITION"})
    IN  pc = "done"
        => /\ Len(rows) % 2 = 0
           /\ Len(calls) = Len(rows)
           /\ \A k \in 1..Len(rows) :
                 IF k % 2 = 1
                 THEN rows[k].Action = "OPEN_POSITION"
                 ELSE /\ rows[k].Action = "CLOSE_POSITION"
                      /\ rows[k].Quantity = rows[k - 1].Quantity
                      /\ calls[k].quantity = calls[k - 1].quantity

\* C17 happens: a finished run opened, reversed and was closed at the end,
\* which makes two pairs of records.
C17_Witness ==
    /\ pc = "done"
    /\ TRADE_QUANTITY = One
    /\ Len(TradeRows(log_file)) = 4
    /\ TradeRows(log_file)[2].Status \in {"CLOSED_LONG", "CLOSED_SHORT"}
    /\ TradeRows(log_file)[4].Status = "CLOSED_AT_END"

\* The candle index of the fill behind a record: the fills of the loop carry
\* the uuid execute_order gave them, the terminal close (order id
\* SIM_FINAL_CLOSE_*) is made at the last candle, START_BACKTEST comes
\* before every candle.
CandleOfRow(r) ==
    IF r.OrderID[1] = "uuid" THEN orders[r.OrderID[2]].bar
    ELSE IF r.Status = "CLOSED_AT_END" THEN Len(df_historical) - 1
    ELSE -1

\* C18.  Record ordering: the records of the log file are in non-decreasing
\* candle-index order of the fills that produced them; of the two records
\* of a reversal on one bar CLOSE_POSITION comes first; a step never
\* modifies or removes a record already written.
C18_RecordOrdering ==
    /\ [](LET rows == DataRows(log_file)
          IN  \A k, l \in 1..Len(rows) :
                 k < l
                 => /\ CandleOfRow(rows[k]) <= CandleOfRow(rows[l])
                    /\ ( /\ rows[k].OrderID[1] = "uuid"
                         /\ rows[l].OrderID[1] = "uuid"
                         /\ CandleOfRow(rows[k]) = CandleOfRow(rows[l]) )
                       => ( /\ l = k + 1
                            /\ rows[k].Action = "CLOSE_POSITION"
                            /\ rows[l].Action = "OPEN_POSITION" ))
    /\ [][ /\ Len(log_file') >= Len(log_file)
           /\ SubSeq(log_file', 1, Len(log_file)) = log_file ]_vars

\* C18 happens: the log holds the open of the first bar, then the close and
\* the open of a reversal on the third bar, then the terminal close.
C18_Witness ==
    LET rows == DataRows(log_file)
    IN  /\ pc = "done"
        /\ Len(rows) = 5
        /\ CandleOfRow(rows[2]) = 0
        /\ rows[3].Action = "CLOSE_POSITION" /\ CandleOfRow(rows[3]) = 2
        /\ rows[4].Action = "OPEN_POSITION" /\ CandleOfRow(rows[4]) = 2
        /\ rows[5].Status = "CLOSED_AT_END" /\ CandleOfRow(rows[5]) = 2

\* The row log_trade writes for a call.
RowOfCall(c) ==
    [row |-> "data", Symbol |-> c.symbol, Action |-> c.action, Side |-> c.side,
     Quantity |-> Fmt8(c.quantity), Price |-> c.price,
     pnl |-> c.pnl, balance_after_trade |-> c.balance_after_trade,
     PNL |-> Fmt2(c.pnl), BalanceAfterTrade |-> Fmt2(c.balance_after_trade),
     OrderID |-> c.order_id, Status |-> c.status]

\* C19.  Header and append-only: after n >= 1 log_trade calls in one process
\* the file named at the first call holds the header row once, as its first
\* row, then n data rows, the k-th being the row of the k-th call; every
\* call after the first keeps the file and adds exactly one data row to it.
C19_HeaderOnceThenRows ==
    /\ [](Len(log_calls) >= 1
          => /\ session_log_filename =
                   << IF log_calls[1].is_backtest THEN "backtest_log" ELSE "live_trade_log",
                      log_calls[1].symbol >>
             /\ Len(log_file) = Len(log_calls) + 1
             /\ log_file[1] = Header
             /\ \A k \in 1..Len(log_calls) : log_file[k + 1] = RowOfCall(log_calls[k]))
    /\ [][ (Len(log_calls) >= 1 /\ log_calls' # log_calls)
           => /\ session_log_filename' = session_log_filename
              /\ Len(log_file') - Len(log_file) = Len(log_calls') - Len(log_calls)
              /\ SubSeq(log_file', 1, Len(log_file)) = log_file
              /\ \A k \in Len(log_file) + 1 .. Len(log_file') : log_file'[k].row = "data" ]_vars

\* C19 happens: three calls in one process, the later ones for another
\* symbol and for live trading, have all gone to the file of the first.
C19_Witness ==
    /\ pc = "logger"
    /\ Len(log_calls) = 3
    /\ log_calls[1].symbol = "BTCUSDT" /\ log_calls[1].is_backtest
    /\ log_calls[2].symbol = "ETHUSDT"
    /\ ~log_calls[3].is_backtest
    /\ session_log_filename = << "backtest_log", "BTCUSDT" >>
    /\ Len(log_file) = 4

\* The historical series is missing, unreadable, or lacks a required column.
DataError ==
    \/ csv_state # "ok"
    \/ "Timestamp" \notin csv_columns
    \/ csv_columns \cap {"close", "Close"} = {}

\* C20.  DataError is fatal before simulation: when the historical series
\* is missing, unreadable or lacks Timestamp or both close and Close, the
\* run goes from loading straight to an exit with a non-zero status: no
\* strategy call, no fill, no record in the log file.
C20_DataErrorFatal ==
    DataError
    => /\ pc \in {"load", "exit"}
       /\ pc = "exit" => exit_status > 0
       /\ strategy_calls = << >>
       /\ orders = << >>
       /\ log_calls = << >>
       /\ log_file = << >>
       /\ session_log_filename = NoFile

\* C21.  Strategy isolation: whatever a strategy does to the frame it is
\* given on a call, the series the engine reads prices from stays the
\* sorted file, and every call, the later ones included, is given the
\* prefix of that series.
C21_StrategyIsolation ==
    pc \in {"replay", "done"}
    => /\ df_historical \in SortValues(csv_file)
       /\ \A k \in 1..Len(strategy_calls) :
             strategy_calls[k].df_klines = SubSeq(df_historical, 1, k)
       /\ \A k \in 1..Len(orders) :
             orders[k].price = df_historical[Min(orders[k].bar + 1, Len(df_historical))].close

\* C21 happens: the strategy rewrote close on the first call, dropped rows
\* on the second and added a column on the third, and traded on the prices
\* of the file all the same.
C21_Witness ==
    /\ strategy = "mutating"
    /\ i = 3
    /\ strategy_calls[1].mutation = "rewrite_close"
    /\ strategy_calls[2].mutation = "drop_rows"
    /\ strategy_calls[3].mutation = "add_column"
    /\ strategy_calls[1].signal = "BUY"
    /\ strategy_calls[3].signal = "SELL"
    /\ Len(orders) = 3
    /\ orders[3].price = csv_file[3].close

\* C22.  Series ordering: whatever the order of the rows of the file, and
\* with rows sharing a Timestamp, the series the engine replays has strictly
\* increasing Timestamps.
C22_StrictlyIncreasing ==
    pc \in {"replay", "done"}
    => \A k \in 1..Len(df_historical) - 1 :
          df_historical[k].Timestamp < df_historical[k + 1].Timestamp

\* C23.  Commission non-interference: of two runs on the same series,
\* signals, trade quantity and initial capital that differ in the commission
\* rate, the positions, the balances, the fills with their pnl and the
\* records are the same at every step.
C23_CommissionNonInterference ==
    twin # NoTwin
    => /\ twin.position = current_position
       /\ twin.balance = current_balance
       /\ twin.orders = orders
       /\ twin.last_order = last_order
       /\ twin.log_file = log_file
       /\ twin.log_calls = log_calls
       /\ twin.session_log_filename = session_log_filename

\* C23 happens: two runs with different rates have finished after a trade
\* that changed the balance.
C23_Witness ==
    /\ pc = "done"
    /\ twin # NoTwin
    /\ twin.commission_rate # commission_rate
    /\ current_balance # initial_capital
    /\ twin.balance = current_balance
    /\ Len(orders) >= 3

C25_LiveRecoverable ==
    /\ [](pc \in LiveTry \cup {"live_error"} /\ exit_status = -1)
    /\ [][pc' = "live_error" => (pc \in LiveTry /\ live'.exceptions = live.exceptions + 1)]_vars
    /\ \A n \in 0..(MaxIterations - 1) :
          (pc = "live_error" /\ live.iteration = n)
             ~> (pc = "live_fetch" /\ live.iteration = n + 1)

\* C25 happens: both iterations raised, the second after the close order of
\* a reversal had gone out, and the loop is at the start of a third.
C25_Witness ==
    /\ pc = "live_fetch"
    /\ live.iteration = 2
    /\ live.exceptions = 2
    /\ Len(exchange.orders) = 1
    /\ exit_status = -1

\* C26.  Graceful shutdown: when the live loop is stopped it is at an
\* iteration boundary (the start of an iteration or the sleep that ends
\* one), never between the close order and the open order of a reversal.
C26_GracefulShutdown ==
    pc = "killed"
    => /\ live.stopped_at \in {"live_fetch", "live_sleep", "live_retry", "live_error"}
       /\ live.stopped_at \notin {"live_close_log", "live_wait", "live_open"}

\* C27.  Partial close: a closing fill of quantity q on a position of size
\* s with s - q > Epsilon leaves size s - q, the side and the entry price
\* as they were, and realizes pnl on q only; with s - q <= Epsilon the
\* position is reset to size 0, side None (flat), entry price 0.
C27_PartialClose ==
    LET o == last_order
        before == o.position_before
    IN  (uuid_count > 0 /\ o.kind = "closing")
        => /\ before.size - o.quantity > Epsilon
                => /\ current_position = [before EXCEPT !.size = before.size - o.quantity]
                   /\ o.pnl = IF before.side = "Long"
                              THEN (o.price - before.entry_price) * o.quantity
                              ELSE (before.entry_price - o.price) * o.quantity
           /\ before.size - o.quantity <= Epsilon
                => /\ current_position.size = 0
                   /\ current_position.side = "None"
                   /\ current_position.entry_price = 0

\* C27 happens: 1.0 of a Long of 2.0 entered at 100 is sold at 110; a Long
\* of 1.0 entered at 100 is left and 10.0 is realized.
C27_Witness ==
    /\ uuid_count >= 2
    /\ last_order.kind = "closing"
    /\ last_order.position_before = [symbol |-> SYMBOL, side |-> "Long",
                                      size |-> 2 * One, entry_price |-> 100]
    /\ last_order.quantity = One
    /\ last_order.price = 110
    /\ last_order.pnl = 10 * One
    /\ current_position = [symbol |-> SYMBOL, side |-> "Long",
                           size |-> One, entry_price |-> 100]

\* The first half of C28 alone: a closing fill of at least the size held
\* closes the size held, realizes pnl on it and leaves no position.
FullCloseFlat ==
    LET o == last_order
        before == o.position_before
    IN  (uuid_count > 0 /\ o.kind = "closing" /\ o.quantity >= before.size)
        => /\ Min(o.quantity, before.size) = before.size
           /\ o.pnl = ClosePnl(before.side, before.entry_price, o.price, before.size)
           /\ current_position.size = 0
           /\ current_position.side = "None"

\* The first half of C28 happens: a Short of 1.0 receives a Buy of 2.0.
FullCloseReached ==
    /\ uuid_count >= 2
    /\ last_order.kind = "closing"
    /\ last_order.position_before.side = "Short"
    /\ last_order.position_before.size = One
    /\ last_order.quantity = 2 * One
    /\ current_position.side = "None"

\* C28.  A single fill never flips: a closing fill of quantity >= size closes
\* exactly the size held, realizes pnl on the size only and leaves the
\* position flat; and no single execute_order call takes the position from
\* Long to Short or from Short to Long.
C28_NoFlip ==
    LET o == last_order
        before == o.position_before
    IN  /\ FullCloseFlat
        /\ uuid_count > 0
              => /\ ~(before.side = "Long" /\ current_position.side = "Short")
                 /\ ~(before.side = "Short" /\ current_position.side = "Long")

\* C29 as stated.  Every record appended to the log file during a backtest
\* has action OPEN_POSITION or CLOSE_POSITION; no record with any other
\* action is written.
C29_OnlyTradeActions ==
    \A k \in 1..Len(DataRows(log_file)) :
        DataRows(log_file)[k].Action \in {"OPEN_POSITION", "CLOSE_POSITION"}

\* C29, amended.  The first record of a backtest is the one run_backtest
\* writes before the loop: action START_BACKTEST, status INITIALIZED, side
\* and order id N/A, quantity, price and pnl 0, the initial balance.  Every
\* record after it has action OPEN_POSITION or CLOSE_POSITION.
C29_ActionsOfRecords ==
    /\ pc \in {"replay", "done"} => Len(DataRows(log_file)) >= 1
    /\ \A k \in 1..Len(DataRows(log_file)) :
          LET r == DataRows(log_file)[k]
          IN  /\ k = 1 => /\ r.Action = "START_BACKTEST"
                          /\ r.Status = "INITIALIZED"
                          /\ r.Side = "N/A" /\ r.OrderID = << "N/A" >>
                          /\ r.Quantity = 0 /\ r.Price = 0 /\ r.pnl = 0
                          /\ r.balance_after_trade = initial_capital
              /\ k > 1 => r.Action \in {"OPEN_POSITION", "CLOSE_POSITION"}

\* C29 happens: a completed backtest has written the start record, an
\* opening, the two records of a reversal and the terminal close.
C29_Witness ==
    /\ pc = "done"
    /\ Len(DataRows(log_file)) = 5
    /\ DataRows(log_file)[1].Action = "START_BACKTEST"
    /\ DataRows(log_file)[3].Action = "CLOSE_POSITION"
    /\ DataRows(log_file)[4].Action = "OPEN_POSITION"
    /\ DataRows(log_file)[5].Status = "CLOSED_AT_END"

\* The execute_order calls of the run whose result run_backtest logged, in
\* order: the successful ones of the loop and the terminal one.
LoggedOrders ==
    SelectSeq(orders, LAMBDA o : o.success \/ o.bar = Len(df_historical))

\* C30 as stated.  Every OPEN_POSITION or CLOSE_POSITION record of a
\* backtest, the terminal one included, carries the order_id, the pnl and
\* the balance_after_trade returned by the execute_order call that
\* produced it.
C30_RecordCarriesResult ==
    /\ Len(TradeRows(log_file)) = Len(LoggedOrders)
    /\ \A k \in 1..Len(TradeRows(log_file)) :
          LET r == TradeRows(log_file)[k]
              o == LoggedOrders[k]
          IN  /\ r.OrderID = o.order_id
              /\ r.pnl = o.pnl
              /\ r.balance_after_trade = o.balance_after_trade

\* C30, amended.  Every such record is written with the pnl and the
\* balance_after_trade the call returned (to two decimals in the file); a
\* record of the loop has the order_id the call returned, the terminal
\* record has SIM_FINAL_CLOSE_LONG for a Sell and SIM_FINAL_CLOSE_SHORT for
\* a Buy in its place.
C30_RecordCarriesPnlAndBalance ==
    /\ Len(TradeRows(log_file)) = Len(LoggedOrders)
    /\ \A k \in 1..Len(TradeRows(log_file)) :
          LET r == TradeRows(log_file)[k]
              o == LoggedOrders[k]
          IN  /\ r.pnl = o.pnl
              /\ r.PNL = Fmt2(o.pnl)
              /\ r.balance_after_trade = o.balance_after_trade
              /\ r.BalanceAfterTrade = Fmt2(o.balance_after_trade)
              /\ r.Side = o.order_side
              /\ r.Status # "CLOSED_AT_END" => r.OrderID = o.order_id
              /\ r.Status = "CLOSED_AT_END"
                    => /\ o.bar = Len(df_historical)
                       /\ r.OrderID = IF o.order_side = "Sell"
                                      THEN << "SIM_FINAL_CLOSE_LONG" >>
                                      ELSE << "SIM_FINAL_CLOSE_SHORT" >>

\* C30 happens: a completed backtest whose reversal closed a Long with a
\* loss and whose terminal fill closed the Short with a gain.
C30_Witness ==
    /\ pc = "done"
    /\ Len(TradeRows(log_file)) = 4
    /\ TradeRows(log_file)[2].Action = "CLOSE_POSITION"
    /\ TradeRows(log_file)[2].OrderID = << "uuid", 2 >>
    /\ TradeRows(log_file)[2].pnl < 0
    /\ TradeRows(log_file)[4].OrderID = << "SIM_FINAL_CLOSE_SHORT" >>
    /\ TradeRows(log_file)[4].pnl > 0
    /\ TradeRows(log_file)[4].balance_after_trade = current_balance

SuccessfulOrders == SelectSeq(orders, LAMBDA o : o.success)

\* C32 for the records of the loop alone: each is written for a call that
\* returned success = True, and each such call of the loop is recorded.
LoopRecordsOfSuccess ==
    LET rows  == SelectSeq(TradeRows(log_file), LAMBDA r : r.Status # "CLOSED_AT_END")
        calls == SelectSeq(SuccessfulOrders, LAMBDA o : o.bar < Len(df_historical))
    IN  /\ Len(rows) = Len(calls)
        /\ \A k \in 1..Len(rows) : rows[k].OrderID = calls[k].order_id

\* C32.  Every OPEN_POSITION or CLOSE_POSITION record of a backtest, the
\* terminal CLOSED_AT_END record included, is written for an execute_order
\* call that returned success = True; a fill that failed produces no trade
\* record.
C32_RecordsOnlyOnSuccess ==
    /\ LoopRecordsOfSuccess
    /\ Len(TradeRows(log_file)) = Len(SuccessfulOrders)
    /\ \A k \in 1..Len(TradeRows(log_file)) :
          TradeRows(log_file)[k].Status = "CLOSED_AT_END"
             => orders[Len(orders)].success

\* The opening fills of the run, in order.
OpeningOrders == SelectSeq(orders, LAMBDA o : o.kind = "opening")

\* C33.  Bounded position size: during a backtest with a trade quantity above
\* Epsilon the position size is 0 or the trade quantity, and an open
\* position was entered at the close of the candle on which it was opened;
\* no fill of the engine extends a position or closes part of one.
C33_BoundedPositionSize ==
    (TRADE_QUANTITY > Epsilon /\ pc \in {"replay", "done"})
    => /\ current_position.size \in {0, TRADE_QUANTITY}
       /\ current_position.side # "None"
             => /\ Len(OpeningOrders) >= 1
                /\ LET o == OpeningOrders[Len(OpeningOrders)]
                   IN  /\ o.bar \in 0..(Len(df_historical) - 1)
                       /\ current_position.entry_price = df_historical[o.bar + 1].close
                       /\ current_position.size = o.quantity
       /\ \A k \in 1..Len(orders) :
             /\ orders[k].kind \in {"opening", "closing"}
             /\ orders[k].kind = "closing"
                   => orders[k].quantity = orders[k].position_before.size

\* C33 happens: after a Long opened at 95 was reversed on the third candle,
\* a Short of the trade quantity entered at that candle's close 120 is held.
C33_Witness ==
    /\ pc = "replay"
    /\ i = 3
    /\ TRADE_QUANTITY = One
    /\ df_historical[1].close = 95 /\ df_historical[3].close = 120
    /\ strategy_calls[1].signal = "BUY"
    /\ strategy_calls[2].signal = "HOLD"
    /\ strategy_calls[3].signal = "SELL"
    /\ Pos(current_position) = [size |-> One, side |-> "Short", entry_price |-> 120]

\* C34.  Signal post-condition: with a trade quantity above Epsilon, right
\* after a bar whose signal is BUY the position is Long, and right after a
\* bar whose signal is SELL it is Short, whatever it was before the bar.
C34_SignalPostCondition ==
    [][ ( /\ pc = "replay"
          /\ i' = i + 1
          /\ TRADE_QUANTITY > Epsilon )
        => /\ strategy_calls'[i'].signal = "BUY"  => current_position'.side = "Long"
           /\ strategy_calls'[i'].signal = "SELL" => current_position'.side = "Short" ]_vars

\* C34 happens: a SELL bar met a Long, a BUY bar met the Short that came of
\* it, and the position is Long again after five fills.
C34_Witness ==
    /\ pc = "replay"
    /\ i = 3
    /\ TRADE_QUANTITY > Epsilon
    /\ SignalsGiven = << "BUY", "SELL", "BUY" >>
    /\ Len(orders) = 5
    /\ orders[4].position_before.side = "Short"
    /\ current_position.side = "Long"

\* C35 as stated, on the records as the file holds them.  The first record
\* of a backtest (START_BACKTEST) has BalanceAfterTrade equal to the initial
\* capital; every later record's BalanceAfterTrade is the one of the record
\* before it plus its own PNL; the last record's BalanceAfterTrade is the
\* final balance the run reports (printed to two decimals).
C35_WrittenBalanceChain ==
    LET rows == DataRows(log_file)
    IN  pc \in {"replay", "done"}
        => /\ Len(rows) >= 1
           /\ rows[1].Action = "START_BACKTEST"
           /\ rows[1].BalanceAfterTrade = initial_capital
           /\ \A k \in 2..Len(rows) :
                 rows[k].BalanceAfterTrade = rows[k - 1].BalanceAfterTrade + rows[k].PNL
           /\ pc = "done" => rows[Len(rows)].BalanceAfterTrade = Fmt2(current_balance)

\* C35, amended.  The chain holds of the values run_backtest passes to
\* log_trade: the first call passes the initial capital, every later call a
\* balance_after_trade equal to the one of the call before plus its own
\* pnl, and the last one passed is the balance of the client; the file holds
\* each of these values rounded to two decimals.
C35_BalanceChain ==
    LET rows == DataRows(log_file)
    IN  pc \in {"replay", "done"}
        => /\ Len(rows) >= 1
           /\ rows[1].Action = "START_BACKTEST"
           /\ rows[1].balance_after_trade = initial_capital
           /\ \A k \in 2..Len(rows) :
                 rows[k].balance_after_trade = rows[k - 1].balance_after_trade + rows[k].pnl
           /\ rows[Len(rows)].balance_after_trade = current_balance
           /\ \A k \in 1..Len(rows) :
                 /\ rows[k].BalanceAfterTrade = Fmt2(rows[k].balance_after_trade)
                 /\ rows[k].PNL = Fmt2(rows[k].pnl)

\* C35 happens: a completed backtest with two closes that realized pnl, the
\* last record holding the final balance, which is not the initial capital.
C35_Witness ==
    /\ pc = "done"
    /\ Len(DataRows(log_file)) = 5
    /\ DataRows(log_file)[3].pnl # 0
    /\ DataRows(log_file)[5].pnl # 0
    /\ DataRows(log_file)[5].balance_after_trade = current_balance
    /\ current_balance # initial_capital

\* C36.  Single destination per process: the name of the session log file
\* is chosen once, by the first log_trade call of the process, from that
\* call's symbol and is_backtest, and never changes afterwards; every later
\* call, whatever its symbol or is_backtest, adds to that file, which is
\* never created anew or truncated.
C36_SingleDestination ==
    /\ [](session_log_filename = NoFile <=> log_calls = << >>)
    /\ [][ session_log_filename = NoFile
           => \/ session_log_filename' = NoFile
              \/ /\ Len(log_calls') >= 1
                 /\ session_log_filename' =
                       << IF log_calls'[1].is_backtest THEN "backtest_log" ELSE "live_trade_log",
                          log_calls'[1].symbol >> ]_vars
    /\ [][ session_log_filename # NoFile
           => /\ session_log_filename' = session_log_filename
              /\ Len(log_file') >= Len(log_file)
              /\ SubSeq(log_file', 1, Len(log_file)) = log_file ]_vars

\* C36 happens: a process whose first call was for live trading of ETHUSDT
\* has made two calls for backtests of BTCUSDT, and the file is the first
\* call's.
C36_Witness ==
    /\ pc = "logger"
    /\ Len(log_calls) = 3
    /\ log_calls[1].symbol = "ETHUSDT" /\ ~log_calls[1].is_backtest
    /\ log_calls[2].symbol = "BTCUSDT" /\ log_calls[2].is_backtest
    /\ log_calls[3].symbol = "BTCUSDT" /\ log_calls[3].is_backtest
    /\ session_log_filename = << "live_trade_log", "ETHUSDT" >>
    /\ Len(log_file) = 4

\* The orders the live loop has submitted in its current iteration.
OrdersOfIteration ==
    SelectSeq(exchange.orders, LAMBDA o : o.iteration = live.iteration)

\* The first half of C37 alone: when the opening order of a reversal is
\* submitted, the closing order of that iteration, for the size held, has
\* been submitted before it.
LiveCloseBeforeOpen ==
    [][ ( /\ pc = "live_open"
          /\ live.current_position_size # 0
          /\ Len(exchange'.orders) = Len(exchange.orders) + 1 )
        => /\ Len(OrdersOfIteration) = 1
           /\ OrdersOfIteration[1].qty = live.current_position_size
           /\ OrdersOfIteration[1].side = exchange'.orders[Len(exchange'.orders)].side ]_vars

\* The first half of C37 happens: both orders of a reversal were accepted
\* and the account went from Short to Long.
LiveReversalReached ==
    /\ pc = "live_open_log"
    /\ live.signal = "BUY" /\ live.current_position_side = "Sell"
    /\ Len(OrdersOfIteration) = 2
    /\ OrdersOfIteration[1].accepted /\ OrdersOfIteration[2].accepted
    /\ exchange.side = "Buy"

\* C37.  Live reversal ordering: on a BUY signal while short (a SELL while
\* long) the closing order is submitted before the opening order, and the
\* opening order is submitted and a CLOSE_POSITION record is logged only if
\* the closing order was accepted.
C37_LiveReversalOrdering ==
    /\ LiveCloseBeforeOpen
    /\ [][ (pc = "live_close_log" /\ Len(log_calls') = Len(log_calls) + 1)
           => OrdersOfIteration[1].accepted ]_vars
    /\ [][ ( /\ pc = "live_open"
             /\ live.current_position_size # 0
             /\ Len(exchange'.orders) = Len(exchange.orders) + 1 )
           => OrdersOfIteration[1].accepted ]_vars

\* The times of a sequence of klines are all different.
NoDuplicateTimes(klines) ==
    \A a, b \in 1..Len(klines) : a # b => klines[a] # klines[b]

\* The second half of C38 alone: neither the klines collected nor the file
\* written holds a time twice.
DownloadNoDuplicates ==
    download.pc # "none"
    => /\ NoDuplicateTimes(download.all_klines)
       /\ NoDuplicateTimes(download.output)

\* The second half of C38 happens: a file of four klines collected in two
\* requests has been written.
DownloadTwoPagesReached ==
    /\ download.pc = "written"
    /\ download.requests >= 2
    /\ Len(download.output) = 4

\* C38.  Downloader row order: the klines collected over all the pages, each
\* page arriving latest first and the older pages later, are in ascending
\* order of time without a time twice, so the CSV file written is sorted
\* oldest first.
C38_DownloaderRowOrder ==
    download.pc # "none"
    => /\ \A k \in 1..(Len(download.all_klines) - 1) :
             download.all_klines[k] < download.all_klines[k + 1]
       /\ \A k \in 1..(Len(download.output) - 1) :
             download.output[k] < download.output[k + 1]

====
